---- MODULE Spec2Model ----
(***************************************************************************)
(* Model of vcontrold's XML configuration loader (src/xmlconfig.c): the    *)
(* section builders that walk the libxml2 document tree, the default       *)
(* command propagation, the reload (parseXMLFile) with its release of the  *)
(* previous generation (freeAllLists), and the lookup routines.            *)
(*                                                                         *)
(* A document is a tree of nodes; a cursor is a path into the tree.  Every *)
(* calloc is an allocation label [g, p, f]: the reload that made it, the   *)
(* document node being visited, and the field it was stored in.  The heap  *)
(* is the set of labels that are allocated.                                *)
(***************************************************************************)
EXTENDS Integers, Sequences, FiniteSets, TLC

(* ---------------------------------------------------------------- bounds *)
MaxReloads == 2
MaxSteps == 60
MaxEnums == 3
MaxRules == 2
MaxKids == 3

(* ------------------------------------------------------- basic vocabulary *)
NULL == <<>>
UNINIT == <<-1>>
CRASH == <<-2>>
NOLBL == [g |-> 0, p |-> <<>>, f |-> "NULL"]

Lbl(g, p, f) == [g |-> g, p |-> p, f |-> f]

(* a char* : ref is the allocation it points to, val the bytes it holds *)
NullS == [ref |-> NOLBL, val |-> ""]
NullB == [ref |-> NOLBL, val |-> <<>>]

Front(s) == SubSeq(s, 1, Len(s) - 1)
Last(s) == s[Len(s)]

(* ---------------------------------------------------------- document tree *)
Elem(name, attrs, kids) ==
    [type |-> "elem", name |-> name, attrs |-> attrs, kids |-> kids, content |-> ""]
TextNode(s) ==
    [type |-> "text", name |-> "text", attrs |-> <<>>, kids |-> <<>>, content |-> s]
Leaf(name, s) == Elem(name, <<>>, <<TextNode(s)>>)
Blank == TextNode(" ")

RECURSIVE NodeAt(_, _)
NodeAt(n, p) == IF p = <<>> THEN n ELSE NodeAt(n.kids[Head(p)], Tail(p))

NextOf(doc, p) ==
    IF p = NULL THEN NULL
    ELSE IF Last(p) < Len(NodeAt(doc, Front(p)).kids) THEN Front(p) \o <<Last(p) + 1>>
    ELSE NULL

ChildrenOf(doc, p) == IF NodeAt(doc, p).kids # <<>> THEN p \o <<1>> ELSE NULL

xmlIsBlankNode(n) == n.type = "text" /\ n.content = " "

(* strstr(hay, pat) # NULL, for the element names that occur in documents *)
SubstrOf ==
    "V-Control" :> {} @@
    "unix" :> {"unix"} @@
    "config" :> {"config"} @@
    "serial" :> {"serial"} @@
    "tty" :> {"tty"} @@
    "net" :> {"net"} @@
    "port" :> {"port"} @@
    "allow" :> {"allow"} @@
    "logging" :> {"logging"} @@
    "file" :> {"file"} @@
    "syslog" :> {"syslog"} @@
    "debug" :> {"debug"} @@
    "device" :> {"device"} @@
    "units" :> {"unit", "units"} @@
    "unit" :> {"unit"} @@
    "abbrev" :> {"abbrev"} @@
    "calc" :> {} @@
    "icalc" :> {} @@
    "type" :> {"type"} @@
    "entity" :> {"entity"} @@
    "enum" :> {"enum"} @@
    "protocols" :> {"protocol", "protocols"} @@
    "protocol" :> {"protocol"} @@
    "pid" :> {"pid"} @@
    "macros" :> {"macro", "macros"} @@
    "macro" :> {"macro"} @@
    "command" :> {"command"} @@
    "commands" :> {"command", "commands"} @@
    "send" :> {"send"} @@
    "retry" :> {"retry"} @@
    "recvTimeout" :> {"recvTimeout"} @@
    "extern" :> {"extern"} @@
    "vito" :> {"vito"} @@
    "devices" :> {"device", "devices"} @@
    "addr" :> {"addr"} @@
    "len" :> {"len"} @@
    "error" :> {"error"} @@
    "precommand" :> {"command"} @@
    "description" :> {"description"} @@
    "bit" :> {"bit"} @@
    "text" :> {} @@
    "foo" :> {}

StrStr(hay, pat) == pat \in SubstrOf[hay]

(* atoi over the numeric texts that occur in documents *)
Atoi ==
    "0" :> 0 @@ "1" :> 1 @@ "2" :> 2 @@ "3" :> 3 @@ "4" :> 4 @@ "8" :> 8 @@
    "3002" :> 3002 @@ "x" :> 0

(* hex2chr / string2chr of common.c over the byte texts that occur *)
hex2chr ==
    "41" :> 65 @@ "42" :> 66 @@ "zz" :> 0

string2chr ==
    "00" :> <<0>> @@ "01" :> <<1>> @@ "02" :> <<2>> @@
    "01 02" :> <<1, 2>> @@ "05 05" :> <<5, 5>> @@ "" :> <<>>

(* getTextNode: the content of the first child when that child is a text node *)
HasText(n) == n.kids # <<>> /\ n.kids[1].type = "text"
getTextNode(n) == n.kids[1].content

(* getPropertyNode: the first attribute whose name contains the wanted one;    *)
(* attribute names in documents do not contain one another, so containment is *)
(* equality.  Result: the index of the attribute, 0 for NULL.                 *)
RECURSIVE PropIndex(_, _, _)
PropIndex(attrs, name, i) ==
    IF i > Len(attrs) THEN 0
    ELSE IF attrs[i][1] = name THEN i
    ELSE PropIndex(attrs, name, i + 1)

HasProp(n, name) == PropIndex(n.attrs, name, 1) # 0
getPropertyNode(n, name) == n.attrs[PropIndex(n.attrs, name, 1)][2]

(* getNextNode(cur, prevPtr); an uninitialised prevPtr holds whatever the stack *)
(* held: either a null pointer or a wild one (ctx.wild), whose use crashes      *)
getNextNode(ctx, cur, prevPtr) ==
    LET nx == NextOf(ctx.doc, cur) IN
    IF nx # NULL /\ (NodeAt(ctx.doc, nx).type # "text" \/ NextOf(ctx.doc, nx) # NULL)
    THEN nx
    ELSE IF prevPtr = UNINIT THEN (IF ctx.wild THEN CRASH ELSE NULL)
    ELSE IF prevPtr # NULL THEN NextOf(ctx.doc, prevPtr)
    ELSE NULL

(* a char* field filled from an element's text (calloc+strcpy, or nullIT) *)
TextField(ctx, cur, f) ==
    LET n == NodeAt(ctx.doc, cur) IN
    [ref |-> Lbl(ctx.g, cur, f), val |-> IF HasText(n) THEN getTextNode(n) ELSE ""]

(* a char* field filled from an attribute (calloc+strcpy, or nullIT) *)
PropField(ctx, cur, attr, f) ==
    LET n == NodeAt(ctx.doc, cur) IN
    [ref |-> Lbl(ctx.g, cur, f), val |-> IF HasProp(n, attr) THEN getPropertyNode(n, attr) ELSE ""]

SetLast(list, f, v) == [list EXCEPT ![Len(list)] = [@ EXCEPT ![f] = v]]

(* what a builder hands back: status "ret" (returned ret, <<>> being NULL), *)
(* "crash" (it dereferenced a null or wild pointer) or "hang" (its loop     *)
(* made no progress); allocs is everything it allocated                     *)
BRes(status, ret, allocs) == [status |-> status, ret |-> ret, allocs |-> allocs]

(* ------------------------------------------------------------- parseUnit *)
newUnitNode(ctx, cur) ==
    [node |-> Lbl(ctx.g, cur, "node"),
     name |-> PropField(ctx, cur, "name", "name"),
     abbrev |-> NullS, gCalc |-> NullS, sCalc |-> NullS, gICalc |-> NullS,
     sICalc |-> NullS, entity |-> NullS, type |-> NullS, ePtr |-> <<>>]

newEnumNode(ctx, cur) ==
    LET n == NodeAt(ctx.doc, cur) IN
    [node |-> Lbl(ctx.g, cur, "node"),
     text |-> PropField(ctx, cur, "text", "text"),
     bytes |-> IF HasProp(n, "bytes")
               THEN [ref |-> Lbl(ctx.g, cur, "bytes"), val |-> string2chr[getPropertyNode(n, "bytes")]]
               ELSE NullB,
     len |-> IF HasProp(n, "bytes") THEN Len(string2chr[getPropertyNode(n, "bytes")]) ELSE 0]

RECURSIVE parseUnitLoop(_, _, _)
parseUnitLoop(ctx, st, fuel) ==
    IF st.cur = CRASH THEN BRes("crash", <<>>, st.allocs)
    ELSE IF st.cur = NULL THEN BRes("ret", st.list, st.allocs)
    ELSE IF fuel = 0 THEN BRes("hang", <<>>, st.allocs)
    ELSE
    LET cur == st.cur
        n == NodeAt(ctx.doc, cur)
        step(f) == [st EXCEPT !.list = SetLast(st.list, f, TextField(ctx, cur, f)),
                              !.allocs = @ \cup {Lbl(ctx.g, cur, f)},
                              !.cur = getNextNode(ctx, cur, st.prevPtr)]
        calc(fg, fs) ==
            [st EXCEPT !.list = SetLast(SetLast(st.list, fg, PropField(ctx, cur, "get", fg)),
                                        fs, PropField(ctx, cur, "set", fs)),
                       !.allocs = @ \cup {Lbl(ctx.g, cur, fg), Lbl(ctx.g, cur, fs)},
                       !.cur = getNextNode(ctx, cur, st.prevPtr)]
    IN
    IF n.type = "text" THEN parseUnitLoop(ctx, [st EXCEPT !.cur = NextOf(ctx.doc, cur)], fuel - 1)
    ELSE IF StrStr(n.name, "unit") THEN
        IF HasProp(n, "name")
        THEN parseUnitLoop(ctx,
                [st EXCEPT !.list = Append(@, newUnitNode(ctx, cur)),
                           !.allocs = @ \cup {Lbl(ctx.g, cur, "node"), Lbl(ctx.g, cur, "name")},
                           !.unitFound = TRUE, !.prevPtr = cur,
                           !.cur = ChildrenOf(ctx.doc, cur)], fuel - 1)
        ELSE BRes("hang", <<>>, st.allocs)
    ELSE IF st.unitFound /\ StrStr(n.name, "enum") THEN
        IF HasProp(n, "text")
        THEN parseUnitLoop(ctx,
                [st EXCEPT !.list = SetLast(@, "ePtr", Append(Last(st.list).ePtr, newEnumNode(ctx, cur))),
                           !.allocs = @ \cup {Lbl(ctx.g, cur, "node"), Lbl(ctx.g, cur, "text")}
                                        \cup (IF HasProp(n, "bytes") THEN {Lbl(ctx.g, cur, "bytes")} ELSE {}),
                           !.cur = getNextNode(ctx, cur, st.prevPtr)], fuel - 1)
        ELSE BRes("ret", <<>>, st.allocs)
    ELSE IF st.unitFound /\ StrStr(n.name, "abbrev") THEN parseUnitLoop(ctx, step("abbrev"), fuel - 1)
    ELSE IF st.unitFound /\ n.name = "calc" THEN parseUnitLoop(ctx, calc("gCalc", "sCalc"), fuel - 1)
    ELSE IF st.unitFound /\ n.name = "icalc" THEN parseUnitLoop(ctx, calc("gICalc", "sICalc"), fuel - 1)
    ELSE IF st.unitFound /\ StrStr(n.name, "type") THEN parseUnitLoop(ctx, step("type"), fuel - 1)
    ELSE IF st.unitFound /\ StrStr(n.name, "entity") THEN parseUnitLoop(ctx, step("entity"), fuel - 1)
    ELSE BRes("ret", <<>>, st.allocs)

parseUnit(ctx, cur) ==
    parseUnitLoop(ctx, [cur |-> cur, prevPtr |-> UNINIT, unitFound |-> FALSE,
                        list |-> <<>>, allocs |-> {}], MaxSteps)

(* index of the first unit whose abbrev is name, 0 for NULL; a unit without *)
(* an abbrev stops the search and is returned                              *)
RECURSIVE getUnitNode(_, _, _)
getUnitNode(list, i, name) ==
    IF i <= Len(list) /\ list[i].abbrev.ref # NOLBL /\ list[i].abbrev.val # name
    THEN getUnitNode(list, i + 1, name)
    ELSE IF i <= Len(list) THEN i ELSE 0

(* a comparison that wants the entry to hold exactly len bytes *)
MemEq_WholePattern(list, i, search, len, over) ==
    /\ len = Len(list[i].bytes.val)
    /\ list[i].bytes.val = SubSeq(search.bytes, 1, len)

(* memcmp(e->bytes, search, len) = 0: the entry holds e.len bytes, and a len *)
(* beyond them reads whatever follows the allocation (over: the entries for  *)
(* which that memory happens to compare equal)                               *)
MemEq(list, i, search, len, over) ==
    LET have == Len(list[i].bytes.val)
        k == IF len < have THEN len ELSE have
    IN /\ SubSeq(list[i].bytes.val, 1, k) = SubSeq(search.bytes, 1, k)
       /\ (len <= have \/ i \in over)

(* index of the entry getEnumNode returns, 0 for NULL; search is the buffer, *)
(* read as bytes when len > 0 and as a string when len = 0                   *)
RECURSIVE getEnumNode(_, _, _, _, _)
getEnumNode(list, i, search, len, over) ==
    IF i > Len(list) THEN 0
    ELSE IF len > 0 /\ list[i].bytes.ref # NOLBL /\ MemEq(list, i, search, len, over) THEN i
    ELSE IF len = 0 /\ list[i].text.ref # NOLBL /\ list[i].text.val = search.text THEN i
    ELSE IF len < 0 /\ list[i].bytes.ref = NOLBL THEN i
    ELSE getEnumNode(list, i + 1, search, len, over)

(* ------------------------------------------------------------ parseMacro *)
newMacroNode(ctx, cur) ==
    [node |-> Lbl(ctx.g, cur, "node"), name |-> PropField(ctx, cur, "name", "name"),
     command |-> NullS]

RECURSIVE parseMacroLoop(_, _, _)
parseMacroLoop(ctx, st, fuel) ==
    IF st.cur = CRASH THEN BRes("crash", <<>>, st.allocs)
    ELSE IF st.cur = NULL THEN BRes("ret", st.list, st.allocs)
    ELSE IF fuel = 0 THEN BRes("hang", <<>>, st.allocs)
    ELSE
    LET cur == st.cur
        n == NodeAt(ctx.doc, cur)
    IN
    IF n.type = "text" THEN parseMacroLoop(ctx, [st EXCEPT !.cur = NextOf(ctx.doc, cur)], fuel - 1)
    ELSE IF StrStr(n.name, "macro") THEN
        IF HasProp(n, "name")
        THEN parseMacroLoop(ctx,
                [st EXCEPT !.list = Append(@, newMacroNode(ctx, cur)),
                           !.allocs = @ \cup {Lbl(ctx.g, cur, "node"), Lbl(ctx.g, cur, "name")},
                           !.found = TRUE, !.prevPtr = cur,
                           !.cur = ChildrenOf(ctx.doc, cur)], fuel - 1)
        ELSE BRes("hang", <<>>, st.allocs)
    ELSE IF st.found /\ StrStr(n.name, "command") THEN
        parseMacroLoop(ctx,
            [st EXCEPT !.list = SetLast(@, "command", TextField(ctx, cur, "command")),
                       !.allocs = @ \cup {Lbl(ctx.g, cur, "command")},
                       !.cur = getNextNode(ctx, cur, st.prevPtr)], fuel - 1)
    ELSE BRes("ret", <<>>, st.allocs)

parseMacro(ctx, cur) ==
    parseMacroLoop(ctx, [cur |-> cur, prevPtr |-> UNINIT, found |-> FALSE,
                         list |-> <<>>, allocs |-> {}], MaxSteps)

(* index of the first macro called name, 0 for NULL *)
RECURSIVE getMacroNode(_, _, _)
getMacroNode(list, i, name) ==
    IF i <= Len(list) /\ list[i].name.ref # NOLBL /\ list[i].name.val # name
    THEN getMacroNode(list, i + 1, name)
    ELSE IF i <= Len(list) THEN i ELSE 0

(* ------------------------------------------------------------- parseICmd *)
newIcmdNode(ctx, cur) ==
    [node |-> Lbl(ctx.g, cur, "node"), name |-> PropField(ctx, cur, "name", "name"),
     send |-> NullS, retry |-> 0, recvTimeout |-> 0]

RECURSIVE parseICmdLoop(_, _, _)
parseICmdLoop(ctx, st, fuel) ==
    IF st.cur = CRASH THEN BRes("crash", <<>>, st.allocs)
    ELSE IF st.cur = NULL THEN BRes("ret", st.list, st.allocs)
    ELSE IF fuel = 0 THEN BRes("hang", <<>>, st.allocs)
    ELSE
    LET cur == st.cur
        n == NodeAt(ctx.doc, cur)
        int(f) == [st EXCEPT !.list = IF HasText(n) THEN SetLast(@, f, Atoi[getTextNode(n)]) ELSE @,
                             !.cur = getNextNode(ctx, cur, st.prevPtr)]
    IN
    IF xmlIsBlankNode(n) THEN parseICmdLoop(ctx, [st EXCEPT !.cur = NextOf(ctx.doc, cur)], fuel - 1)
    ELSE IF StrStr(n.name, "command") THEN
        IF HasProp(n, "name")
        THEN parseICmdLoop(ctx,
                [st EXCEPT !.list = Append(@, newIcmdNode(ctx, cur)),
                           !.allocs = @ \cup {Lbl(ctx.g, cur, "node"), Lbl(ctx.g, cur, "name")},
                           !.found = TRUE, !.prevPtr = cur,
                           !.cur = ChildrenOf(ctx.doc, cur)], fuel - 1)
        ELSE BRes("hang", <<>>, st.allocs)
    ELSE IF st.found /\ StrStr(n.name, "send") THEN
        parseICmdLoop(ctx,
            [st EXCEPT !.list = SetLast(@, "send", TextField(ctx, cur, "send")),
                       !.allocs = @ \cup {Lbl(ctx.g, cur, "send")},
                       !.cur = getNextNode(ctx, cur, st.prevPtr)], fuel - 1)
    ELSE IF st.found /\ StrStr(n.name, "retry") THEN parseICmdLoop(ctx, int("retry"), fuel - 1)
    ELSE IF st.found /\ StrStr(n.name, "recvTimeout") THEN parseICmdLoop(ctx, int("recvTimeout"), fuel - 1)
    ELSE BRes("ret", <<>>, st.allocs)

parseICmd(ctx, cur) ==
    parseICmdLoop(ctx, [cur |-> cur, prevPtr |-> UNINIT, found |-> FALSE,
                        list |-> <<>>, allocs |-> {}], MaxSteps)

(* index of the first internal command called name, 0 for NULL *)
RECURSIVE getIcmdNode(_, _, _)
getIcmdNode(list, i, name) ==
    IF i <= Len(list) /\ list[i].name.ref # NOLBL /\ list[i].name.val # name
    THEN getIcmdNode(list, i + 1, name)
    ELSE IF i <= Len(list) THEN i ELSE 0

(* --------------------------------------------------------- parseProtocol *)
newProtocolNode(ctx, cur) ==
    [node |-> Lbl(ctx.g, cur, "node"), name |-> PropField(ctx, cur, "name", "name"),
     id |-> 0, mPtr |-> <<>>, icPtr |-> <<>>]

(* index of the first protocol called name, 0 for NULL *)
RECURSIVE getProtocolNode(_, _, _)
getProtocolNode(list, i, name) ==
    IF i <= Len(list) /\ list[i].name.val # name
    THEN getProtocolNode(list, i + 1, name)
    ELSE IF i <= Len(list) THEN i ELSE 0

RECURSIVE parseProtocolLoop(_, _, _)
parseProtocolLoop(ctx, st, fuel) ==
    IF st.cur = CRASH THEN BRes("crash", <<>>, st.allocs)
    ELSE IF st.cur = NULL THEN BRes("ret", st.list, st.allocs)
    ELSE IF fuel = 0 THEN BRes("hang", <<>>, st.allocs)
    ELSE
    LET cur == st.cur
        n == NodeAt(ctx.doc, cur)
        sub(r, f) ==
            IF r.status # "ret" THEN BRes(r.status, <<>>, st.allocs \cup r.allocs)
            ELSE parseProtocolLoop(ctx,
                    [st EXCEPT !.list = IF r.ret # <<>> THEN SetLast(@, f, r.ret) ELSE @,
                               !.allocs = @ \cup r.allocs,
                               !.cur = getNextNode(ctx, cur, st.prevPtr)], fuel - 1)
    IN
    IF n.type = "text" THEN parseProtocolLoop(ctx, [st EXCEPT !.cur = NextOf(ctx.doc, cur)], fuel - 1)
    ELSE IF StrStr(n.name, "protocol") THEN
        IF HasProp(n, "name")
        THEN parseProtocolLoop(ctx,
                [st EXCEPT !.list = Append(@, newProtocolNode(ctx, cur)),
                           !.allocs = @ \cup {Lbl(ctx.g, cur, "node"), Lbl(ctx.g, cur, "name")},
                           !.found = TRUE, !.prevPtr = cur,
                           !.cur = ChildrenOf(ctx.doc, cur)], fuel - 1)
        ELSE BRes("ret", <<>>, st.allocs)
    ELSE IF st.found /\ StrStr(n.name, "pid") THEN
        IF HasText(n)
        THEN parseProtocolLoop(ctx,
                [st EXCEPT !.list = SetLast(@, "id", hex2chr[getTextNode(n)]),
                           !.cur = getNextNode(ctx, cur, st.prevPtr)], fuel - 1)
        ELSE BRes("crash", <<>>, st.allocs)
    ELSE IF st.found /\ StrStr(n.name, "macros") THEN sub(parseMacro(ctx, ChildrenOf(ctx.doc, cur)), "mPtr")
    ELSE IF st.found /\ StrStr(n.name, "commands") THEN sub(parseICmd(ctx, ChildrenOf(ctx.doc, cur)), "icPtr")
    ELSE IF getNextNode(ctx, cur, st.prevPtr) = cur THEN BRes("hang", <<>>, st.allocs)
    ELSE parseProtocolLoop(ctx, [st EXCEPT !.cur = getNextNode(ctx, cur, st.prevPtr)], fuel - 1)

parseProtocol(ctx, cur) ==
    parseProtocolLoop(ctx, [cur |-> cur, prevPtr |-> UNINIT, found |-> FALSE,
                            list |-> <<>>, allocs |-> {}], MaxSteps)

(* ----------------------------------------------------------- parseDevice *)
(* a device that is built although its protocol does not resolve *)
newDeviceNode_Unbound(ctx, cur, pPtr) ==
    LET n == NodeAt(ctx.doc, cur)
        i == getProtocolNode(pPtr, 1, getPropertyNode(n, "protocol"))
    IN
    [node |-> Lbl(ctx.g, cur, "node"),
     name |-> PropField(ctx, cur, "name", "name"),
     id |-> PropField(ctx, cur, "ID", "id"),
     protoPtr |-> IF i = 0 THEN Lbl(ctx.g, cur, "node") ELSE pPtr[i].node,
     cmdPtr |-> <<>>]

newDeviceNode(ctx, cur, pPtr) ==
    LET n == NodeAt(ctx.doc, cur)
        i == getProtocolNode(pPtr, 1, getPropertyNode(n, "protocol"))
    IN
    [node |-> Lbl(ctx.g, cur, "node"),
     name |-> PropField(ctx, cur, "name", "name"),
     id |-> PropField(ctx, cur, "ID", "id"),
     protoPtr |-> IF i = 0 THEN NOLBL ELSE pPtr[i].node,
     cmdPtr |-> <<>>]

(* index of the first device with this id, 0 for NULL *)
RECURSIVE getDeviceNode(_, _, _)
getDeviceNode(list, i, id) ==
    IF i <= Len(list) /\ list[i].id.val # id
    THEN getDeviceNode(list, i + 1, id)
    ELSE IF i <= Len(list) THEN i ELSE 0

RECURSIVE parseDeviceLoop(_, _, _, _)
parseDeviceLoop(ctx, pPtr, st, fuel) ==
    IF st.cur = CRASH THEN BRes("crash", <<>>, st.allocs)
    ELSE IF st.cur = NULL THEN BRes("ret", st.list, st.allocs)
    ELSE IF fuel = 0 THEN BRes("hang", <<>>, st.allocs)
    ELSE
    LET cur == st.cur
        n == NodeAt(ctx.doc, cur)
        alloc == st.allocs \cup {Lbl(ctx.g, cur, "node"), Lbl(ctx.g, cur, "name"), Lbl(ctx.g, cur, "id")}
    IN
    IF n.type = "text" THEN parseDeviceLoop(ctx, pPtr, [st EXCEPT !.cur = NextOf(ctx.doc, cur)], fuel - 1)
    ELSE IF StrStr(n.name, "device") THEN
        IF HasProp(n, "protocol")
        THEN IF newDeviceNode(ctx, cur, pPtr).protoPtr = NOLBL
             THEN BRes("ret", <<>>, alloc)
             ELSE parseDeviceLoop(ctx, pPtr,
                    [st EXCEPT !.list = Append(@, newDeviceNode(ctx, cur, pPtr)),
                               !.allocs = alloc, !.prevPtr = cur,
                               !.cur = NextOf(ctx.doc, cur)], fuel - 1)
        ELSE BRes("ret", <<>>, st.allocs)
    ELSE IF getNextNode(ctx, cur, st.prevPtr) = cur THEN BRes("hang", <<>>, st.allocs)
    ELSE parseDeviceLoop(ctx, pPtr, [st EXCEPT !.cur = getNextNode(ctx, cur, st.prevPtr)], fuel - 1)

parseDevice(ctx, cur, pPtr) ==
    parseDeviceLoop(ctx, pPtr, [cur |-> cur, prevPtr |-> UNINIT, list |-> <<>>, allocs |-> {}], MaxSteps)

(* ---------------------------------------------------------- parseCommand *)
(* calloc'ed Command with newCommandNode's initialisation *)
newCommandNode(ctx, cur) ==
    [node |-> Lbl(ctx.g, cur, "node"),
     name |-> NullS, pcmd |-> NullS, addr |-> NullS, precmd |-> NullS,
     unit |-> NullS, description |-> NullS, errStr |-> NullB,
     bit |-> -1, len |-> 0, nodeType |-> 0]

(* index of the first command called name, 0 for NULL; a record whose name is *)
(* a null pointer stops the search and is returned                            *)
RECURSIVE getCommandNode(_, _, _)
getCommandNode(list, i, name) ==
    IF i <= Len(list) /\ list[i].name.ref # NOLBL /\ name.ref # NOLBL /\ list[i].name.val # name.val
    THEN getCommandNode(list, i + 1, name)
    ELSE IF i <= Len(list) THEN i ELSE 0

(* the Command cPtr points to: the record handed to a nested run until a *)
(* command element starts a new one, else the last record of the chain   *)
CP(st) == IF st.useNc THEN st.nc ELSE Last(st.list)
SetCP(st, f, v) ==
    IF st.useNc THEN [st EXCEPT !.nc = [@ EXCEPT ![f] = v]]
    ELSE [st EXCEPT !.list = SetLast(@, f, v)]

CRes(status, ret, st) ==
    [status |-> status, ret |-> ret, allocs |-> st.allocs, devs |-> st.devs, nc |-> st.nc]

(* a nested record that takes no unit from the enclosing command *)
NestedRecord_OwnUnitOnly(ctx, cur, nc, cPtr) ==
    LET n == NodeAt(ctx.doc, cur) IN
    [nc EXCEPT
        !.description = cPtr.description,
        !.name = cPtr.name,
        !.pcmd = [ref |-> Lbl(ctx.g, cur, "pcmd"),
                  val |-> IF HasProp(n, "protocmd") THEN getPropertyNode(n, "protocmd")
                          ELSE cPtr.pcmd.val],
        !.nodeType = 2]

(* the record nc of a nested device element at cur, once the run over its   *)
(* children is back: description and name point into the enclosing command  *)
(* cPtr, unit is copied when the element gave none, pcmd is a copy of the   *)
(* protocmd attribute or of cPtr's pcmd                                      *)
NestedRecord(ctx, cur, nc, cPtr) ==
    LET n == NodeAt(ctx.doc, cur) IN
    [nc EXCEPT
        !.description = cPtr.description,
        !.name = cPtr.name,
        !.unit = IF nc.unit.ref = NOLBL /\ cPtr.unit.ref # NOLBL
                 THEN [ref |-> Lbl(ctx.g, cur, "unit"), val |-> cPtr.unit.val]
                 ELSE @,
        !.pcmd = [ref |-> Lbl(ctx.g, cur, "pcmd"),
                  val |-> IF HasProp(n, "protocmd") THEN getPropertyNode(n, "protocmd")
                          ELSE cPtr.pcmd.val],
        !.nodeType = 2]

RECURSIVE parseCommandLoop(_, _, _)
parseCommandLoop(ctx, st, fuel) ==
    IF st.cur = CRASH THEN CRes("crash", <<>>, st)
    ELSE IF st.cur = NULL THEN CRes("ret", st.list, st)
    ELSE IF fuel = 0 THEN CRes("hang", <<>>, st)
    ELSE
    LET cur == st.cur
        n == NodeAt(ctx.doc, cur)
        nxt == getNextNode(ctx, cur, st.prevPtr)
        str(f) == [SetCP(st, f, TextField(ctx, cur, f)) EXCEPT
                       !.allocs = @ \cup {Lbl(ctx.g, cur, f)}, !.cur = nxt]
        int(f) == [(IF HasText(n) THEN SetCP(st, f, Atoi[getTextNode(n)]) ELSE st) EXCEPT !.cur = nxt]
    IN
    IF xmlIsBlankNode(n) THEN parseCommandLoop(ctx, [st EXCEPT !.cur = NextOf(ctx.doc, cur)], fuel - 1)
    ELSE IF n.name = "command" THEN
        IF HasProp(n, "name")
        THEN parseCommandLoop(ctx,
                [st EXCEPT !.list = Append(@, [newCommandNode(ctx, cur) EXCEPT
                                        !.nodeType = 1,
                                        !.name = PropField(ctx, cur, "name", "name"),
                                        !.pcmd = PropField(ctx, cur, "protocmd", "pcmd")]),
                           !.allocs = @ \cup {Lbl(ctx.g, cur, "node"), Lbl(ctx.g, cur, "name"),
                                              Lbl(ctx.g, cur, "pcmd")},
                           !.useNc = FALSE, !.found = TRUE, !.prevPtr = cur,
                           !.cur = ChildrenOf(ctx.doc, cur)], fuel - 1)
        ELSE CRes("hang", <<>>, st)
    ELSE IF st.found /\ StrStr(n.name, "device") THEN
        IF ~HasProp(n, "ID") THEN CRes("hang", <<>>, st)
        ELSE
        LET d == getDeviceNode(st.devs, 1, getPropertyNode(n, "ID")) IN
        IF d = 0 THEN CRes("ret", <<>>, st)
        ELSE IF CP(st).description.ref = NOLBL THEN CRes("crash", <<>>, st)
        ELSE
        LET r == parseCommandLoop(ctx,
                    [cur |-> ChildrenOf(ctx.doc, cur), prevPtr |-> NULL, found |-> TRUE,
                     useNc |-> TRUE, nc |-> newCommandNode(ctx, cur), list |-> <<>>,
                     devs |-> st.devs, allocs |-> st.allocs \cup {Lbl(ctx.g, cur, "node")}],
                    fuel - 1)
            st1 == [st EXCEPT !.allocs = r.allocs, !.devs = r.devs]
        IN
        IF r.status # "ret" THEN CRes(r.status, <<>>, st1)
        ELSE IF ~HasProp(n, "protocmd") /\ CP(st).pcmd.ref = NOLBL THEN CRes("crash", <<>>, st1)
        ELSE
        LET copyUnit == r.nc.unit.ref = NOLBL /\ CP(st).unit.ref # NOLBL
            ncPtr == NestedRecord(ctx, cur, r.nc, CP(st))
        IN
        parseCommandLoop(ctx,
            [st1 EXCEPT !.devs = [@ EXCEPT ![d] = [@ EXCEPT !.cmdPtr = Append(@, ncPtr)]],
                        !.allocs = @ \cup {Lbl(ctx.g, cur, "pcmd")}
                                     \cup (IF copyUnit THEN {Lbl(ctx.g, cur, "unit")} ELSE {}),
                        !.cur = nxt], fuel - 1)
    ELSE IF st.found /\ StrStr(n.name, "addr") THEN parseCommandLoop(ctx, str("addr"), fuel - 1)
    ELSE IF st.found /\ StrStr(n.name, "error") THEN
        IF HasText(n) /\ string2chr[getTextNode(n)] = <<>>
        THEN parseCommandLoop(ctx, [st EXCEPT !.cur = nxt], fuel - 1)
        ELSE parseCommandLoop(ctx,
                [SetCP(st, "errStr", [ref |-> Lbl(ctx.g, cur, "errStr"),
                                      val |-> IF HasText(n) THEN string2chr[getTextNode(n)] ELSE <<0>>])
                 EXCEPT !.allocs = @ \cup {Lbl(ctx.g, cur, "errStr")}, !.cur = nxt], fuel - 1)
    ELSE IF st.found /\ StrStr(n.name, "unit") THEN parseCommandLoop(ctx, str("unit"), fuel - 1)
    ELSE IF st.found /\ n.name = "precommand" THEN parseCommandLoop(ctx, str("precmd"), fuel - 1)
    ELSE IF st.found /\ StrStr(n.name, "description") THEN parseCommandLoop(ctx, str("description"), fuel - 1)
    ELSE IF st.found /\ StrStr(n.name, "len") THEN parseCommandLoop(ctx, int("len"), fuel - 1)
    ELSE IF st.found /\ StrStr(n.name, "bit") THEN parseCommandLoop(ctx, int("bit"), fuel - 1)
    ELSE CRes("ret", <<>>, st)

(* the top-level call parseCommand(cur, NULL, dePtr) *)
parseCommand(ctx, cur, dePtr) ==
    parseCommandLoop(ctx, [cur |-> cur, prevPtr |-> UNINIT, found |-> FALSE, useNc |-> FALSE,
                           nc |-> newCommandNode(ctx, <<>>), list |-> <<>>,
                           devs |-> dePtr, allocs |-> {}], MaxSteps)

(* ------------------------------------------------ 32-bit words and the ACL *)
(* an in_addr_t is its four octets, most significant first *)
INADDR_NONE == <<255, 255, 255, 255>>
HighBit == <<128, 0, 0, 0>>
Zero32 == <<0, 0, 0, 0>>

RECURSIVE BitAnd(_, _)
BitAnd(a, b) ==
    IF a = 0 \/ b = 0 THEN 0
    ELSE (a % 2) * (b % 2) + 2 * BitAnd(a \div 2, b \div 2)

And32(a, b) == <<BitAnd(a[1], b[1]), BitAnd(a[2], b[2]), BitAnd(a[3], b[3]), BitAnd(a[4], b[4])>>
BitOr(a, b) == a + b - BitAnd(a, b)
Or32(a, b) == <<BitOr(a[1], b[1]), BitOr(a[2], b[2]), BitOr(a[3], b[3]), BitOr(a[4], b[4])>>
Shr32(a) ==
    <<a[1] \div 2, (a[2] \div 2) + (a[1] % 2) * 128,
      (a[3] \div 2) + (a[2] % 2) * 128, (a[4] \div 2) + (a[3] % 2) * 128>>

(* byte order conversion of the build: a swap on a little-endian host *)
ntohl(ctx, x) == IF ctx.littleEndian THEN <<x[4], x[3], x[2], x[1]>> ELSE x
htonl(ctx, x) == ntohl(ctx, x)

(* an address literal is its sequence of characters *)
Digit ==
    "0" :> 0 @@ "1" :> 1 @@ "2" :> 2 @@ "3" :> 3 @@ "4" :> 4 @@
    "5" :> 5 @@ "6" :> 6 @@ "7" :> 7 @@ "8" :> 8 @@ "9" :> 9
IsDigit(c) == c \in DOMAIN Digit

(* strchr: index of the first occurrence of c from i on, 0 for NULL *)
RECURSIVE strchr(_, _, _)
strchr(cs, c, i) ==
    IF i > Len(cs) THEN 0 ELSE IF cs[i] = c THEN i ELSE strchr(cs, c, i + 1)

(* atoi on characters: an optional sign, then digits up to the first other character *)
RECURSIVE AtoiDigits(_, _, _)
AtoiDigits(cs, i, acc) ==
    IF i <= Len(cs) /\ IsDigit(cs[i]) THEN AtoiDigits(cs, i + 1, acc * 10 + Digit[cs[i]]) ELSE acc
atoi(cs) ==
    IF cs # <<>> /\ cs[1] = "-" THEN 0 - AtoiDigits(cs, 2, 0) ELSE AtoiDigits(cs, 1, 0)

(* w * base + d on 32 bits; <<>> when it does not fit *)
MulAdd32(w, base, d) ==
    LET t4 == w[4] * base + d
        t3 == w[3] * base + (t4 \div 256)
        t2 == w[2] * base + (t3 \div 256)
        t1 == w[1] * base + (t2 \div 256)
    IN IF t1 > 255 THEN <<>> ELSE <<t1, t2 % 256, t3 % 256, t4 % 256>>

(* one part of a dotted address: decimal, or octal after a leading 0; <<>> *)
(* when it is empty, holds another character or exceeds 32 bits           *)
RECURSIVE PartValue(_, _, _, _)
PartValue(cs, i, base, acc) ==
    IF i > Len(cs) \/ acc = <<>> THEN acc
    ELSE IF ~IsDigit(cs[i]) \/ Digit[cs[i]] >= base THEN <<>>
    ELSE PartValue(cs, i + 1, base, MulAdd32(acc, base, Digit[cs[i]]))
PartOf(cs) ==
    IF cs = <<>> THEN <<>>
    ELSE IF Len(cs) > 1 /\ cs[1] = "0" THEN PartValue(cs, 2, 8, Zero32)
    ELSE PartValue(cs, 1, 10, Zero32)

RECURSIVE SplitDots(_)
SplitDots(cs) ==
    LET d == strchr(cs, ".", 1) IN
    IF d = 0 THEN <<cs>> ELSE <<SubSeq(cs, 1, d - 1)>> \o SplitDots(SubSeq(cs, d + 1, Len(cs)))

(* inet_addr: the address in network byte order, INADDR_NONE when the literal *)
(* is malformed; 255.255.255.255 has the value of INADDR_NONE.  The forms a,  *)
(* a.b and a.b.c put the last part into the remaining low octets.             *)
inet_addr(ctx, cs) ==
    LET parts == SplitDots(cs)
        k == Len(parts)
        v == [i \in 1..k |-> PartOf(parts[i])]
        octet(i) == v[i][1] = 0 /\ v[i][2] = 0 /\ v[i][3] = 0
        bad == \/ k > 4
               \/ \E i \in 1..k : v[i] = <<>>
               \/ \E i \in 1..(k - 1) : ~octet(i)
               \/ k = 4 /\ ~octet(4)
               \/ k = 3 /\ (v[3][1] # 0 \/ v[3][2] # 0)
               \/ k = 2 /\ v[2][1] # 0
        host == IF k = 1 THEN v[1]
                ELSE IF k = 2 THEN <<v[1][4], v[2][2], v[2][3], v[2][4]>>
                ELSE IF k = 3 THEN <<v[1][4], v[2][4], v[3][3], v[3][4]>>
                ELSE <<v[1][4], v[2][4], v[3][4], v[4][4]>>
    IN IF bad THEN INADDR_NONE ELSE htonl(ctx, host)

(* the bitmask loop of parseConfig; st is <<mask, count>> *)
RECURSIVE MaskLoop(_, _)
MaskLoop(st, size) ==
    IF st[2] < size - 1
    THEN MaskLoop(<<Or32(Shr32(st[1]), HighBit), st[2] + 1>>, size)
    ELSE st[1]
MaskOf(size) == IF size # 0 THEN MaskLoop(<<HighBit, 0>>, size) ELSE Zero32

(* the value an int takes when stored in a short *)
ShortOf(x) == ((x + 32768) % 65536) - 32768

(* char ip[16] *)
IpSize == 16

(* what is copied into ip: with a slash the text before it, whatever its     *)
(* length (strncpy(ip, chrPtr, ptr - chrPtr)); without one at most the first *)
(* sizeof(ip) - 1 characters of the text; and the size                       *)
AllowIp(text) ==
    LET sl == strchr(text, "/", 1) IN
    IF sl # 0 THEN SubSeq(text, 1, sl - 1)
    ELSE IF Len(text) > IpSize - 1 THEN SubSeq(text, 1, IpSize - 1) ELSE text
(* the copy fills ip without a terminator, or writes past its end *)
IpOverrun(text) == strchr(text, "/", 1) - 1 >= IpSize
AllowSize(text) ==
    LET sl == strchr(text, "/", 1) IN
    IF sl # 0 THEN ShortOf(atoi(SubSeq(text, sl + 1, Len(text)))) ELSE 32

newAllowNode(ctx, cur, text) ==
    [node |-> Lbl(ctx.g, cur, "node"),
     text |-> [ref |-> Lbl(ctx.g, cur, "text"), val |-> text],
     mask |-> MaskOf(AllowSize(text)),
     ip |-> inet_addr(ctx, AllowIp(text))]

(* index of the first rule matching testIP (network byte order), 0 for NULL *)
RECURSIVE getAllowNode(_, _, _, _)
getAllowNode(ctx, list, i, testIP) ==
    IF i > Len(list) THEN 0
    ELSE IF And32(ntohl(ctx, list[i].ip), list[i].mask) = And32(ntohl(ctx, testIP), list[i].mask)
    THEN i
    ELSE getAllowNode(ctx, list, i + 1, testIP)

(* ----------------------------------------------------------- parseConfig *)
YesText == {"y", "yes", "1"}

newConfig(ctx) ==
    [node |-> Lbl(ctx.g, <<>>, "cfg"), tty |-> NullS, port |-> 0, logfile |-> NullS,
     syslog |-> 0, debug |-> 0, devID |-> NullS, devPtr |-> NOLBL, aPtr |-> <<>>]

RECURSIVE parseConfigLoop(_, _, _)
parseConfigLoop(ctx, st, fuel) ==
    IF st.cur = CRASH THEN BRes("crash", <<>>, st.allocs)
    ELSE IF st.cur = NULL THEN BRes("ret", <<st.cfg>>, st.allocs)
    ELSE IF fuel = 0 THEN BRes("hang", <<>>, st.allocs)
    ELSE
    LET cur == st.cur
        n == NodeAt(ctx.doc, cur)
        nxt == getNextNode(ctx, cur, st.prevPtr)
        down(f) == [st EXCEPT ![f] = TRUE, !.prevPtr = cur, !.cur = ChildrenOf(ctx.doc, cur)]
        (* a text field, or nullIT(&cfgPtr->devID) when the element is empty *)
        str(f) == [st EXCEPT !.cfg = IF HasText(n)
                                     THEN [@ EXCEPT ![f] = TextField(ctx, cur, f)]
                                     ELSE [@ EXCEPT !.devID = [ref |-> Lbl(ctx.g, cur, f), val |-> ""]],
                             !.allocs = @ \cup {Lbl(ctx.g, cur, f)},
                             !.cur = nxt]
        flag(f) == [st EXCEPT !.cfg = [@ EXCEPT ![f] = IF getTextNode(n) \in YesText THEN 1 ELSE 0],
                              !.cur = nxt]
    IN
    IF StrStr(n.name, "serial") THEN parseConfigLoop(ctx, down("serialFound"), fuel - 1)
    ELSE IF StrStr(n.name, "net") THEN parseConfigLoop(ctx, down("netFound"), fuel - 1)
    ELSE IF StrStr(n.name, "logging") THEN parseConfigLoop(ctx, down("logFound"), fuel - 1)
    ELSE IF StrStr(n.name, "device") THEN
        parseConfigLoop(ctx,
            [st EXCEPT !.cfg = [@ EXCEPT !.devID = PropField(ctx, cur, "ID", "devID")],
                       !.allocs = @ \cup {Lbl(ctx.g, cur, "devID")},
                       !.cur = NextOf(ctx.doc, cur)], fuel - 1)
    ELSE IF st.serialFound /\ StrStr(n.name, "tty") THEN parseConfigLoop(ctx, str("tty"), fuel - 1)
    ELSE IF st.netFound /\ StrStr(n.name, "port") THEN
        parseConfigLoop(ctx,
            [st EXCEPT !.cfg = IF HasText(n) THEN [@ EXCEPT !.port = Atoi[getTextNode(n)]] ELSE @,
                       !.cur = nxt], fuel - 1)
    ELSE IF st.netFound /\ StrStr(n.name, "allow") THEN
        IF ~HasProp(n, "ip") THEN BRes("crash", <<>>, st.allocs)
        ELSE
        LET text == getPropertyNode(n, "ip") IN
        IF IpOverrun(text) /\ ctx.wild THEN BRes("crash", <<>>, st.allocs)
        ELSE IF inet_addr(ctx, AllowIp(text)) # INADDR_NONE
        THEN parseConfigLoop(ctx,
                [st EXCEPT !.cfg = [@ EXCEPT !.aPtr = Append(@, newAllowNode(ctx, cur, text))],
                           !.allocs = @ \cup {Lbl(ctx.g, cur, "node"), Lbl(ctx.g, cur, "text")},
                           !.cur = nxt], fuel - 1)
        ELSE parseConfigLoop(ctx, [st EXCEPT !.cur = nxt], fuel - 1)
    ELSE IF st.logFound /\ StrStr(n.name, "file") THEN parseConfigLoop(ctx, str("logfile"), fuel - 1)
    ELSE IF st.logFound /\ StrStr(n.name, "syslog") THEN
        IF HasText(n) THEN parseConfigLoop(ctx, flag("syslog"), fuel - 1)
        ELSE BRes("crash", <<>>, st.allocs)
    ELSE IF st.logFound /\ StrStr(n.name, "debug") THEN
        IF HasText(n) THEN parseConfigLoop(ctx, flag("debug"), fuel - 1)
        ELSE BRes("crash", <<>>, st.allocs)
    ELSE parseConfigLoop(ctx, [st EXCEPT !.cur = nxt], fuel - 1)

(* the Config is ret[1]; parseConfig never returns NULL *)
parseConfig(ctx, cur) ==
    parseConfigLoop(ctx, [cur |-> cur, prevPtr |-> UNINIT, serialFound |-> FALSE,
                          netFound |-> FALSE, logFound |-> FALSE, cfg |-> newConfig(ctx),
                          allocs |-> {Lbl(ctx.g, <<>>, "cfg")}], MaxSteps)

(* --------------------------------------------------------- free routines *)
(* Each remove*List yields the pointers it passes to free, in the order of  *)
(* the calls (the recursion reaches the end of the chain first); free(NULL) *)
(* is left out.                                                             *)
Ptrs(seq) == SelectSeq(seq, LAMBDA l : l # NOLBL)

RECURSIVE removeMacroList(_)
removeMacroList(list) ==
    IF list = <<>> THEN <<>>
    ELSE removeMacroList(Tail(list))
         \o Ptrs(<<Head(list).name.ref, Head(list).command.ref, Head(list).node>>)

RECURSIVE removeIcmdList(_)
removeIcmdList(list) ==
    IF list = <<>> THEN <<>>
    ELSE removeIcmdList(Tail(list))
         \o Ptrs(<<Head(list).name.ref, Head(list).send.ref, Head(list).node>>)

RECURSIVE removeProtocolList(_)
removeProtocolList(list) ==
    IF list = <<>> THEN <<>>
    ELSE removeProtocolList(Tail(list))
         \o removeMacroList(Head(list).mPtr) \o removeIcmdList(Head(list).icPtr)
         \o Ptrs(<<Head(list).name.ref, Head(list).node>>)

RECURSIVE removeEnumList(_)
removeEnumList(list) ==
    IF list = <<>> THEN <<>>
    ELSE removeEnumList(Tail(list))
         \o Ptrs(<<Head(list).text.ref, Head(list).bytes.ref, Head(list).node>>)

RECURSIVE removeUnitList(_)
removeUnitList(list) ==
    IF list = <<>> THEN <<>>
    ELSE LET u == Head(list) IN
         removeUnitList(Tail(list)) \o removeEnumList(u.ePtr)
         \o Ptrs(<<u.name.ref, u.abbrev.ref, u.gCalc.ref, u.sCalc.ref, u.gICalc.ref,
                   u.sICalc.ref, u.entity.ref, u.type.ref, u.node>>)

(* a release that takes every record for the owner of its name and description *)
RECURSIVE removeCommandList_NoTag(_)
removeCommandList_NoTag(list) ==
    IF list = <<>> THEN <<>>
    ELSE LET c == Head(list) IN
         removeCommandList_NoTag(Tail(list))
         \o (IF c.nodeType > 0
             THEN Ptrs(<<c.addr.ref, c.precmd.ref, c.unit.ref, c.pcmd.ref, c.errStr.ref>>)
                  \o Ptrs(<<c.name.ref, c.description.ref>>)
             ELSE <<>>)
         \o <<c.node>>

RECURSIVE removeCommandList(_)
removeCommandList(list) ==
    IF list = <<>> THEN <<>>
    ELSE LET c == Head(list) IN
         removeCommandList(Tail(list))
         \o (IF c.nodeType > 0
             THEN Ptrs(<<c.addr.ref, c.precmd.ref, c.unit.ref, c.pcmd.ref, c.errStr.ref>>)
                  \o (IF c.nodeType = 1 THEN Ptrs(<<c.name.ref, c.description.ref>>) ELSE <<>>)
             ELSE <<>>)
         \o <<c.node>>

RECURSIVE removeDeviceList(_)
removeDeviceList(list) ==
    IF list = <<>> THEN <<>>
    ELSE removeDeviceList(Tail(list)) \o removeCommandList(Head(list).cmdPtr)
         \o Ptrs(<<Head(list).name.ref, Head(list).id.ref, Head(list).node>>)

RECURSIVE removeAllowList(_)
removeAllowList(list) ==
    IF list = <<>> THEN <<>>
    ELSE removeAllowList(Tail(list)) \o Ptrs(<<Head(list).text.ref, Head(list).node>>)

(* the frees of freeAllLists' config branch *)
removeConfig(cfg) ==
    IF cfg = <<>> THEN <<>>
    ELSE Ptrs(<<cfg[1].tty.ref, cfg[1].logfile.ref, cfg[1].devID.ref>>)
         \o removeAllowList(cfg[1].aPtr) \o <<cfg[1].node>>

(* free() applied to a sequence of pointers: hb.heap is what is allocated,   *)
(* hb.bad collects the pointers that were not allocated when they were freed *)
RECURSIVE FreeSeq(_, _)
FreeSeq(hb, seq) ==
    IF seq = <<>> THEN hb
    ELSE FreeSeq([heap |-> hb.heap \ {Head(seq)},
                  bad |-> IF Head(seq) \in hb.heap THEN hb.bad ELSE hb.bad \cup {Head(seq)}],
                 Tail(seq))

(* ------------------------------------------------------------- documents *)
Chars(a, b, c, d) == <<a, ".", b, ".", c, ".", d>>

Allow(text) == Elem("allow", <<<<"ip", text>>>>, <<>>)

ConfigSec(devid, allows) ==
    Elem("config", <<>>,
         <<Elem("serial", <<>>, <<Leaf("tty", "/dev/ttyS0")>>),
           Elem("net", <<>>, <<Leaf("port", "3002")>> \o allows),
           Elem("logging", <<>>, <<Leaf("file", "vc.log"), Leaf("syslog", "n"), Leaf("debug", "y")>>),
           Elem("device", <<<<"ID", devid>>>>, <<>>)>>)

Allows1 == <<Allow(Chars("1", "0", "0", "5") \o <<"/", "2", "4">>), Allow(Chars("1", "2", "3", "4"))>>

Enum(text, bytes) == Elem("enum", <<<<"text", text>>, <<"bytes", bytes>>>>, <<>>)
EnumDefault(text) == Elem("enum", <<<<"text", text>>>>, <<>>)

UnitFull(name, abbrev) ==
    Elem("unit", <<<<"name", name>>>>,
         <<Leaf("abbrev", abbrev),
           Elem("calc", <<<<"get", "V/10">>, <<"set", "V*10">>>>, <<>>),
           Elem("icalc", <<<<"get", "B0">>>>, <<>>),
           Leaf("type", "short"),
           Leaf("entity", "C"),
           Enum("on", "01"), Enum("off", "00"), EnumDefault("auto")>>)
UnitBare(name) == Elem("unit", <<<<"name", name>>>>, <<>>)
UnitAbbrev(name, abbrev) == Elem("unit", <<<<"name", name>>>>, <<Leaf("abbrev", abbrev)>>)

Protocol(name, pid) ==
    Elem("protocol", <<<<"name", name>>>>,
         <<Leaf("pid", pid),
           Elem("macros", <<>>,
                <<Elem("macro", <<<<"name", "SYNC">>>>, <<Leaf("command", "SEND 04")>>)>>),
           Elem("commands", <<>>,
                <<Elem("command", <<<<"name", "getaddr">>>>,
                       <<Leaf("send", "SYNC"), Leaf("retry", "3"), Leaf("recvTimeout", "2")>>)>>)>>)

Device(id, name, proto) ==
    Elem("device", <<<<"ID", id>>, <<"name", name>>, <<"protocol", proto>>>>, <<>>)

Cmd(name, kids) == Elem("command", <<<<"name", name>>, <<"protocmd", "getaddr">>>>, kids)
Nested(id, kids) == Elem("device", <<<<"ID", id>>>>, kids)
GenericKids(addr) ==
    <<Leaf("addr", addr), Leaf("len", "2"), Leaf("bit", "3"), Leaf("unit", "UT"),
      Leaf("error", "05 05"), Leaf("precommand", "getMode"), Leaf("description", "outside temp")>>

(* the usual layout: unix/config, units, protocols, extern/vito/{devices, commands} *)
Layout(cfg, units, protos, devs, cmds) ==
    Elem("V-Control", <<>>,
         <<Elem("unix", <<>>, <<cfg>>),
           Elem("units", <<>>, units),
           Elem("protocols", <<>>, protos),
           Elem("extern", <<>>, <<Elem("vito", <<>>,
                <<Elem("devices", <<>>, devs), Elem("commands", <<>>, cmds)>>)>>)>>)

Parsed(root) == [parsed |-> TRUE, ns |-> TRUE, xinc |-> 1, root |-> root]

Units1 == <<UnitFull("Temperature", "UT")>>
Protos1 == <<Protocol("KW", "41")>>
Devs2 == <<Device("A", "devA", "KW"), Device("B", "devB", "KW")>>

(* 1: generic getTemp with an addr override for device B, and generic getMode *)
DocBase ==
    Parsed(Layout(ConfigSec("A", Allows1), Units1, Protos1, Devs2,
        <<Cmd("getTemp", GenericKids("0800") \o <<Nested("B", <<Leaf("addr", "0900")>>)>>),
          Cmd("getMode", <<Leaf("addr", "0100"), Leaf("description", "mode")>>)>>))

(* 2: another valid configuration: one device, two protocols, other values *)
DocOther ==
    Parsed(Layout(ConfigSec("B", <<>>), <<UnitAbbrev("Count", "CO"), UnitFull("Temperature", "UT")>>,
        <<Protocol("KW", "41"), Protocol("P300", "42")>>,
        <<Device("B", "devB", "P300")>>,
        <<Cmd("getTemp", <<Leaf("addr", "0810"), Leaf("description", "t")>>)>>))

(* 3: a device names a protocol that is not declared *)
DocBadProtocol ==
    Parsed(Layout(ConfigSec("A", Allows1), Units1, Protos1,
        <<Device("A", "devA", "KW"), Device("B", "devB", "GWG")>>,
        <<Cmd("getTemp", GenericKids("0800"))>>))

(* 4: the default device of the config is not declared *)
DocBadDefault ==
    Parsed(Layout(ConfigSec("Z", Allows1), Units1, Protos1, Devs2,
        <<Cmd("getTemp", GenericKids("0800") \o <<Nested("B", <<Leaf("addr", "0900")>>)>>)>>))

(* 5: a nested device element names a device that is not declared *)
DocBadNested ==
    Parsed(Layout(ConfigSec("A", Allows1), Units1, Protos1, Devs2,
        <<Cmd("getTemp", GenericKids("0800")
                \o <<Nested("A", <<Leaf("addr", "0900")>>), Nested("Z", <<>>)>>)>>))

(* 6: a nested device element with a description of its own *)
DocNestedDescription ==
    Parsed(Layout(ConfigSec("A", <<>>), Units1, Protos1, Devs2,
        <<Cmd("getTemp", GenericKids("0800")
                \o <<Nested("B", <<Leaf("addr", "0900"), Leaf("description", "B only")>>)>>)>>))

(* 7: a unit and a command without child elements, each followed by another *)
DocChildless ==
    Parsed(Layout(ConfigSec("A", <<>>), <<UnitBare("Raw"), UnitFull("Temperature", "UT")>>,
        Protos1, Devs2,
        <<Cmd("ping", <<>>), Cmd("getTemp", GenericKids("0800"))>>))

(* 8: two generic commands of the same name *)
DocDuplicate ==
    Parsed(Layout(ConfigSec("A", <<>>), Units1, Protos1, Devs2,
        <<Cmd("getTemp", <<Leaf("addr", "0800"), Leaf("description", "first")>>),
          Cmd("getTemp", <<Leaf("addr", "0801"), Leaf("description", "second")>>)>>))

(* 9: an unknown element inside a unit *)
DocBadUnit ==
    Parsed(Layout(ConfigSec("A", <<>>),
        <<Elem("unit", <<<<"name", "U">>>>, <<Leaf("abbrev", "UT"), Leaf("foo", "x")>>)>>,
        Protos1, Devs2, <<Cmd("getTemp", GenericKids("0800"))>>))

(* 10: blank text and an unknown element between the sections *)
DocBlanks ==
    Parsed(Elem("V-Control", <<>>,
         <<Elem("unix", <<>>, <<ConfigSec("A", Allows1)>>),
           Blank,
           Elem("foo", <<>>, <<>>),
           Elem("units", <<>>, Units1),
           Elem("protocols", <<>>, Protos1),
           Elem("extern", <<>>, <<Elem("vito", <<>>,
                <<Elem("devices", <<>>, Devs2),
                  Elem("commands", <<>>, <<Cmd("getTemp", GenericKids("0800"))>>)>>)>>)>>))

(* 11: the file is missing or not well-formed; 12: the root is not V-Control; *)
(* 13: the XInclude pass fails                                                *)
DocMissing == [parsed |-> FALSE, ns |-> FALSE, xinc |-> 0, root |-> Elem("V-Control", <<>>, <<>>)]
DocWrongRoot == [Parsed(Elem("foo", <<>>, <<>>)) EXCEPT !.xinc = 0]
DocXIncludeError == [DocBase EXCEPT !.xinc = -1]

(* 14: a command whose unit names no unit of the document *)
DocUnknownUnit ==
    Parsed(Layout(ConfigSec("A", <<>>), Units1, Protos1, Devs2,
        <<Cmd("getTemp", <<Leaf("addr", "0800"), Leaf("unit", "XX")>>)>>))

(* 15: a unit element without a name attribute *)
DocNamelessUnit ==
    Parsed(Layout(ConfigSec("A", <<>>),
        <<Elem("unit", <<>>, <<Leaf("abbrev", "UT")>>)>>,
        Protos1, Devs2, <<Cmd("getTemp", GenericKids("0800"))>>))

(* 16: an unknown element at the end of the devices section *)
DocStrayInDevices ==
    Parsed(Layout(ConfigSec("A", <<>>), Units1, Protos1,
        Devs2 \o <<Elem("foo", <<>>, <<>>)>>,
        <<Cmd("getTemp", GenericKids("0800"))>>))

(* a protocol whose macro SYNC and internal command getaddr hold these children *)
ProtocolOf(name, pid, macroKids, icmdKids) ==
    Elem("protocol", <<<<"name", name>>>>,
         <<Leaf("pid", pid),
           Elem("macros", <<>>, <<Elem("macro", <<<<"name", "SYNC">>>>, macroKids)>>),
           Elem("commands", <<>>, <<Elem("command", <<<<"name", "getaddr">>>>, icmdKids)>>)>>)

(* 17: an unknown element under a macro of a protocol *)
DocBadMacro ==
    Parsed(Layout(ConfigSec("A", <<>>), Units1,
        <<ProtocolOf("KW", "41", <<Leaf("command", "SEND 04"), Leaf("foo", "x")>>,
                     <<Leaf("send", "SYNC")>>)>>,
        Devs2, <<Cmd("getTemp", GenericKids("0800"))>>))

(* 18: an unknown element under an internal command of a protocol *)
DocBadICmd ==
    Parsed(Layout(ConfigSec("A", <<>>), Units1,
        <<ProtocolOf("KW", "41", <<Leaf("command", "SEND 04")>>,
                     <<Leaf("send", "SYNC"), Leaf("foo", "x")>>)>>,
        Devs2, <<Cmd("getTemp", GenericKids("0800"))>>))

(* 19: an unknown element under a nested device element of a command *)
DocBadNestedChild ==
    Parsed(Layout(ConfigSec("A", <<>>), Units1, Protos1, Devs2,
        <<Cmd("getTemp", GenericKids("0800")
                \o <<Nested("B", <<Leaf("addr", "0900"), Leaf("foo", "x"), Leaf("len", "4")>>)>>)>>))

(* 20, 21, 22: device B of the devices section lacks its name, its ID, its protocol *)
DocDeviceNoName ==
    Parsed(Layout(ConfigSec("A", <<>>), Units1, Protos1,
        <<Device("A", "devA", "KW"), Elem("device", <<<<"ID", "B">>, <<"protocol", "KW">>>>, <<>>)>>,
        <<Cmd("getTemp", GenericKids("0800"))>>))
DocDeviceNoId ==
    Parsed(Layout(ConfigSec("A", <<>>), Units1, Protos1,
        <<Device("A", "devA", "KW"), Elem("device", <<<<"name", "devB">>, <<"protocol", "KW">>>>, <<>>)>>,
        <<Cmd("getTemp", GenericKids("0800"))>>))
DocDeviceNoProtocol ==
    Parsed(Layout(ConfigSec("A", <<>>), Units1, Protos1,
        <<Device("A", "devA", "KW"), Elem("device", <<<<"ID", "B">>, <<"name", "devB">>>>, <<>>)>>,
        <<Cmd("getTemp", GenericKids("0800"))>>))

(* 23: the devices section comes before the protocols section *)
DocDevicesFirst ==
    Parsed(Elem("V-Control", <<>>,
         <<Elem("unix", <<>>, <<ConfigSec("A", <<>>)>>),
           Elem("units", <<>>, Units1),
           Elem("extern", <<>>, <<Elem("vito", <<>>,
                <<Elem("devices", <<>>, Devs2),
                  Elem("commands", <<>>, <<Cmd("getTemp", GenericKids("0800"))>>)>>)>>),
           Elem("protocols", <<>>, Protos1)>>))

(* 24: the commands section comes before the devices section *)
DocCommandsFirst ==
    Parsed(Elem("V-Control", <<>>,
         <<Elem("unix", <<>>, <<ConfigSec("A", <<>>)>>),
           Elem("units", <<>>, Units1),
           Elem("protocols", <<>>, Protos1),
           Elem("extern", <<>>, <<Elem("vito", <<>>,
                <<Elem("commands", <<>>, <<Cmd("getTemp", GenericKids("0800"))>>),
                  Elem("devices", <<>>, Devs2)>>)>>)>>))

(* 25: the same with a nested device element in the command *)
DocCommandsFirstNested ==
    Parsed(Elem("V-Control", <<>>,
         <<Elem("unix", <<>>, <<ConfigSec("A", <<>>)>>),
           Elem("units", <<>>, Units1),
           Elem("protocols", <<>>, Protos1),
           Elem("extern", <<>>, <<Elem("vito", <<>>,
                <<Elem("commands", <<>>,
                       <<Cmd("getTemp", GenericKids("0800") \o <<Nested("B", <<Leaf("addr", "0900")>>)>>)>>),
                  Elem("devices", <<>>, Devs2)>>)>>)>>))

(* 26: a nested device element with a unit and a protocmd of its own *)
DocNestedOwnUnit ==
    Parsed(Layout(ConfigSec("A", <<>>), <<UnitAbbrev("Count", "CO"), UnitFull("Temperature", "UT")>>,
        Protos1, Devs2,
        <<Cmd("getTemp", GenericKids("0800")
                \o <<Elem("device", <<<<"ID", "B">>, <<"protocmd", "setaddr">>>>,
                           <<Leaf("addr", "0900"), Leaf("unit", "CO")>>)>>)>>))

(* 27: a nested device element between the description and the unit of its command *)
DocNestedBeforeUnit ==
    Parsed(Layout(ConfigSec("A", <<>>), Units1, Protos1, Devs2,
        <<Cmd("getTemp", <<Leaf("addr", "0800"), Leaf("description", "outside temp"),
                           Nested("B", <<Leaf("addr", "0900")>>),
                           Leaf("unit", "UT")>>)>>))

Docs ==
    <<DocBase, DocOther, DocBadProtocol, DocBadDefault, DocBadNested, DocNestedDescription,
      DocChildless, DocDuplicate, DocBadUnit, DocBlanks, DocMissing, DocWrongRoot,
      DocXIncludeError, DocUnknownUnit, DocNamelessUnit, DocStrayInDevices,
      DocBadMacro, DocBadICmd, DocBadNestedChild,
      DocDeviceNoName, DocDeviceNoId, DocDeviceNoProtocol,
      DocDevicesFirst, DocCommandsFirst, DocCommandsFirstNested,
      DocNestedOwnUnit, DocNestedBeforeUnit>>

(* the documents of the reload sequences, those of the structural cases,    *)
(* those with a faulty entry and those with the sections in another order   *)
MainDocs == 1..13
CaseDocs == {1, 3, 4, 5, 10, 14, 15, 16}
FaultDocs == {1, 10, 17, 18, 19, 20, 21, 22}
OrderDocs == {1, 10, 23, 24, 25}
NestedDocs == {1, 6, 10, 26, 27}

(* ------------------------------------------------------- the reload state *)
VARIABLES
    protoPtr, uPtr, devPtr, cmdPtr, cfgPtr,  \* the five global handles (<<>> is NULL)
    heap,           \* the allocations that have not been freed
    badFree,        \* pointers that were freed while not allocated
    pc,             \* where parseXMLFile stands: "idle" between calls
    loc,            \* the locals of the running parseXMLFile
    gen,            \* number of parseXMLFile calls so far
    littleEndian,   \* byte order of the build
    query,          \* a lookup made by the dispatcher: its arguments and its result
    pre,            \* history: handles and heap when the running call began
    last,           \* history: the last two calls that have returned, latest first
    loaded          \* history: some call has returned 1

vars == <<protoPtr, uPtr, devPtr, cmdPtr, cfgPtr, heap, badFree, pc, loc, gen,
          littleEndian, query, pre, last, loaded>>

handles == <<protoPtr, uPtr, devPtr, cmdPtr, cfgPtr>>

NoLoc ==
    [doc |-> 0, g |-> 0, outer |-> <<>>, wild |-> FALSE, cur |-> NULL, prevPtr |-> UNINIT,
     unixFound |-> FALSE, protocolsFound |-> FALSE,
     TprotoPtr |-> <<>>, TuPtr |-> <<>>, TdevPtr |-> <<>>, TcmdPtr |-> <<>>, TcfgPtr |-> <<>>]

Ctx == [doc |-> Docs[loc.doc].root, g |-> loc.g, wild |-> loc.wild, littleEndian |-> littleEndian]
Cur == NodeAt(Docs[loc.doc].root, loc.cur)
DocLbl == Lbl(loc.g, <<>>, "doc")

NoQuery == [kind |-> "none"]

Init ==
    /\ protoPtr = <<>> /\ uPtr = <<>> /\ devPtr = <<>> /\ cmdPtr = <<>> /\ cfgPtr = <<>>
    /\ heap = {} /\ badFree = {}
    /\ pc = "idle" /\ loc = NoLoc /\ gen = 0
    /\ littleEndian \in BOOLEAN
    /\ pre = [handles |-> <<<<>>, <<>>, <<>>, <<>>, <<>>>>, heap |-> {}]
    /\ last = <<>>
    /\ loaded = FALSE
    /\ query = NoQuery

(* what the model answers to every lookup: the entities without their addresses *)
SV(x) == [null |-> x.ref = NOLBL, val |-> x.val]
CommandView(c) ==
    [name |-> SV(c.name), pcmd |-> SV(c.pcmd), addr |-> SV(c.addr), precmd |-> SV(c.precmd),
     unit |-> SV(c.unit), description |-> SV(c.description), errStr |-> SV(c.errStr),
     bit |-> c.bit, len |-> c.len]
EnumView(e) == [text |-> SV(e.text), bytes |-> SV(e.bytes), len |-> e.len]
UnitView(u) ==
    [name |-> SV(u.name), abbrev |-> SV(u.abbrev), gCalc |-> SV(u.gCalc), sCalc |-> SV(u.sCalc),
     gICalc |-> SV(u.gICalc), sICalc |-> SV(u.sICalc), entity |-> SV(u.entity),
     type |-> SV(u.type), ePtr |-> [i \in 1..Len(u.ePtr) |-> EnumView(u.ePtr[i])]]
MacroView(m) == [name |-> SV(m.name), command |-> SV(m.command)]
IcmdView(c) == [name |-> SV(c.name), send |-> SV(c.send), retry |-> c.retry, recvTimeout |-> c.recvTimeout]
ProtocolView(q) ==
    [name |-> SV(q.name), id |-> q.id, mPtr |-> [i \in 1..Len(q.mPtr) |-> MacroView(q.mPtr[i])], icPtr |-> [i \in 1..Len(q.icPtr) |-> IcmdView(q.icPtr[i])]]
DeviceView(d) ==
    [name |-> SV(d.name), id |-> SV(d.id), proto |-> d.protoPtr.p, cmdPtr |-> [i \in 1..Len(d.cmdPtr) |-> CommandView(d.cmdPtr[i])]]
AllowView(a) == [text |-> a.text.val, ip |-> a.ip, mask |-> a.mask]
ConfigView(c) ==
    [tty |-> SV(c.tty), port |-> c.port, logfile |-> SV(c.logfile), syslog |-> c.syslog,
     debug |-> c.debug, devID |-> SV(c.devID), dev |-> c.devPtr.p, aPtr |-> [i \in 1..Len(c.aPtr) |-> AllowView(c.aPtr[i])]]
Answers(h) ==
    [protocols |-> [i \in 1..Len(h[1]) |-> ProtocolView(h[1][i])], units |-> [i \in 1..Len(h[2]) |-> UnitView(h[2][i])],
     devices |-> [i \in 1..Len(h[3]) |-> DeviceView(h[3][i])], commands |-> [i \in 1..Len(h[4]) |-> CommandView(h[4][i])],
     config |-> [i \in 1..Len(h[5]) |-> ConfigView(h[5][i])]]

(* every allocation reachable from the five handles *)
SeqSet(seq) == {seq[i] : i \in 1..Len(seq)}
CommandRefs(c) ==
    {c.node, c.name.ref, c.pcmd.ref, c.addr.ref, c.precmd.ref, c.unit.ref, c.description.ref,
     c.errStr.ref} \ {NOLBL}
DeviceRefs(d) ==
    ({d.node, d.name.ref, d.id.ref, d.protoPtr} \ {NOLBL})
    \cup UNION {CommandRefs(d.cmdPtr[i]) : i \in 1..Len(d.cmdPtr)}
Reach(h) ==
    SeqSet(removeProtocolList(h[1])) \cup SeqSet(removeUnitList(h[2]))
    \cup UNION {DeviceRefs(h[3][i]) : i \in 1..Len(h[3])}
    \cup UNION {CommandRefs(h[4][i]) : i \in 1..Len(h[4])}
    \cup SeqSet(removeConfig(h[5]))
    \cup {h[5][i].devPtr : i \in 1..Len(h[5])}

(* parseXMLFile returns ret: the call is over, its locals are gone.          *)
(* A call returns to its caller: frame is <<>> for the idle process, or holds *)
(* the position and the locals of the call that was running when this one   *)
(* was invoked                                                              *)
ReturnTo(frame, d, ret, newHeap, newHandles) ==
    /\ pc' = IF frame = <<>> THEN "idle" ELSE frame[1].pc
    /\ loc' = IF frame = <<>> THEN NoLoc ELSE frame[1].loc
    /\ last' = <<[doc |-> d, ret |-> ret, at |-> pc, count |-> Cardinality(newHeap),
                  answers |-> Answers(newHandles)]>> \o SubSeq(last, 1, IF last = <<>> THEN 0 ELSE 1)

Return(d, ret, newHeap, newHandles) == ReturnTo(loc.outer, d, ret, newHeap, newHandles)

(* a return 0 that tidies up with freeAllLists: the live lists are lost *)
Return0_FreeAllLists(allocs) ==
    /\ heap' = (heap \cup allocs) \ Reach(handles)
    /\ protoPtr' = <<>> /\ uPtr' = <<>> /\ devPtr' = <<>> /\ cmdPtr' = <<>> /\ cfgPtr' = <<>>
    /\ Return(loc.doc, 0, (heap \cup allocs) \ Reach(handles), <<<<>>, <<>>, <<>>, <<>>, <<>>>>)
    /\ UNCHANGED <<badFree, gen, littleEndian, query, loaded, pre>>

(* a return 0 out of the section loop: nothing is freed *)
Return0(allocs) ==
    /\ heap' = heap \cup allocs
    /\ Return(loc.doc, 0, heap \cup allocs, handles)
    /\ UNCHANGED <<protoPtr, uPtr, devPtr, cmdPtr, cfgPtr, badFree, gen, littleEndian, query, loaded, pre>>

(* a builder crashed or hung: parseXMLFile never returns *)
Stuck(status, allocs) ==
    /\ pc' = IF status = "crash" THEN "crashed" ELSE "hung"
    /\ heap' = heap \cup allocs
    /\ UNCHANGED <<protoPtr, uPtr, devPtr, cmdPtr, cfgPtr, badFree, loc, gen, littleEndian, query, loaded, pre, last>>

(* the section loop goes on at cursor c with locals l *)
Continue(c, l, allocs) ==
    IF c = CRASH THEN Stuck("crash", allocs)
    ELSE /\ loc' = [l EXCEPT !.cur = c]
         /\ heap' = heap \cup allocs
         /\ UNCHANGED <<protoPtr, uPtr, devPtr, cmdPtr, cfgPtr, badFree, pc, gen, littleEndian, query, loaded, pre, last>>

(* prevPtr->next in parseXMLFile: an uninitialised prevPtr is dereferenced *)
PrevNext == IF loc.prevPtr = UNINIT THEN CRASH ELSE NextOf(Ctx.doc, loc.prevPtr)

(* ---------------------------------------------------------- parseXMLFile *)
(* the call and its checks of the parsed document *)
Invoke(d, w, frame) ==
    /\ gen' = gen + 1
    /\ pre' = [handles |-> handles, heap |-> heap]
    /\ UNCHANGED <<protoPtr, uPtr, devPtr, cmdPtr, cfgPtr, badFree, littleEndian, query, loaded>>
    /\ LET doc == Docs[d]
           docLbl == Lbl(gen + 1, <<>>, "doc")
       IN
       IF ~doc.parsed \/ ~doc.ns \/ doc.root.name # "V-Control"
       THEN /\ heap' = heap
            /\ ReturnTo(frame, d, 0, heap, handles)
       ELSE IF doc.xinc < 0
       THEN /\ heap' = heap \cup {docLbl}
            /\ ReturnTo(frame, d, 0, heap \cup {docLbl}, handles)
       ELSE /\ heap' = heap \cup {docLbl}
            /\ pc' = "loop"
            /\ loc' = [NoLoc EXCEPT !.doc = d, !.g = gen + 1, !.outer = frame, !.wild = w,
                                    !.cur = ChildrenOf(doc.root, <<>>)]
            /\ last' = last

(* parseXMLFile is called by the idle process *)
StartReload(d, w) ==
    /\ pc = "idle"
    /\ gen < MaxReloads
    /\ Invoke(d, w, <<>>)

(* parseXMLFile is called once more while a call is between two of its steps *)
(* (the SIGHUP of the comment at freeAllLists arrives again): nothing in     *)
(* parseXMLFile turns the call away or makes it wait; the call runs, and     *)
(* the one it broke in on goes on when it has returned                       *)
(* (bounded: one such call, during the last call of a run)                   *)
Reenter(d, w) ==
    /\ pc \notin {"idle", "crashed", "hung"}
    /\ loc.outer = <<>>
    /\ gen = MaxReloads
    /\ Invoke(d, w, <<[pc |-> pc, loc |-> loc]>>)

(* which branch of the section loop the cursor takes *)
Branch ==
    IF xmlIsBlankNode(Cur) THEN "blank"
    ELSE IF StrStr(Cur.name, "unix") THEN "unix"
    ELSE IF StrStr(Cur.name, "extern") THEN "extern"
    ELSE IF StrStr(Cur.name, "protocols") THEN "protocols"
    ELSE IF StrStr(Cur.name, "units") THEN "units"
    ELSE IF StrStr(Cur.name, "commands") THEN "commands"
    ELSE IF StrStr(Cur.name, "devices") THEN "devices"
    ELSE IF StrStr(Cur.name, "config") THEN "config"
    ELSE "other"

InLoop(b) == pc = "loop" /\ loc.cur # NULL /\ Branch = b

NextOrPrev == IF NextOf(Ctx.doc, loc.cur) # NULL THEN NextOf(Ctx.doc, loc.cur) ELSE PrevNext

(* the outcome of a section builder: stuck, return 0 on NULL, or go on *)
AfterBuilder(r, c, l) ==
    IF r.status # "ret" THEN Stuck(r.status, r.allocs)
    ELSE IF r.ret = <<>> THEN Return0(r.allocs)
    ELSE Continue(c, l, r.allocs)

LoopBlank == InLoop("blank") /\ Continue(NextOf(Ctx.doc, loc.cur), loc, {})

LoopOther == InLoop("other") /\ Continue(NextOf(Ctx.doc, loc.cur), loc, {})

LoopUnix ==
    /\ InLoop("unix")
    /\ IF loc.unixFound THEN Return0({})
       ELSE Continue(ChildrenOf(Ctx.doc, loc.cur),
                     [loc EXCEPT !.prevPtr = loc.cur, !.unixFound = TRUE], {})

LoopExtern ==
    /\ InLoop("extern")
    /\ LET c == ChildrenOf(Ctx.doc, loc.cur) IN
       IF c # NULL /\ StrStr(NodeAt(Ctx.doc, c).name, "vito")
       THEN Continue(ChildrenOf(Ctx.doc, c), [loc EXCEPT !.prevPtr = c], {})
       ELSE Continue(PrevNext, loc, {})

LoopProtocols ==
    /\ InLoop("protocols")
    /\ IF loc.protocolsFound THEN Return0({})
       ELSE LET r == parseProtocol(Ctx, ChildrenOf(Ctx.doc, loc.cur)) IN
            AfterBuilder(r, NextOf(Ctx.doc, loc.cur),
                         [loc EXCEPT !.protocolsFound = TRUE, !.TprotoPtr = r.ret])

LoopUnits ==
    /\ InLoop("units")
    /\ LET r == parseUnit(Ctx, ChildrenOf(Ctx.doc, loc.cur)) IN
       AfterBuilder(r, NextOf(Ctx.doc, loc.cur), [loc EXCEPT !.TuPtr = r.ret])

LoopCommands ==
    /\ InLoop("commands")
    /\ LET r == parseCommand(Ctx, ChildrenOf(Ctx.doc, loc.cur), loc.TdevPtr) IN
       AfterBuilder(r, NextOrPrev, [loc EXCEPT !.TcmdPtr = r.ret, !.TdevPtr = r.devs])

LoopDevices ==
    /\ InLoop("devices")
    /\ LET r == parseDevice(Ctx, ChildrenOf(Ctx.doc, loc.cur), loc.TprotoPtr) IN
       AfterBuilder(r, NextOrPrev, [loc EXCEPT !.TdevPtr = r.ret])

LoopConfig ==
    /\ InLoop("config")
    /\ LET r == parseConfig(Ctx, ChildrenOf(Ctx.doc, loc.cur))
           nx == NextOf(Ctx.doc, loc.cur)
       IN AfterBuilder(r, IF nx # NULL /\ NextOf(Ctx.doc, nx) # NULL THEN nx ELSE PrevNext,
                       [loc EXCEPT !.TcfgPtr = r.ret])

(* a propagation that does not ask whether the device has the command *)
PropagateTo_Always(ctx, d, c, ci, di) ==
    [d EXCEPT !.cmdPtr = Append(@, [c EXCEPT !.node = Lbl(ctx.g, <<ci, di>>, "prop"),
                                             !.nodeType = 0])]

(* a propagation that leaves out the line ncPtr->len = cPtr->len *)
PropagateTo_NoLen(ctx, d, c, ci, di) ==
    IF getCommandNode(d.cmdPtr, 1, c.name) = 0
    THEN [d EXCEPT !.cmdPtr = Append(@, [c EXCEPT !.node = Lbl(ctx.g, <<ci, di>>, "prop"),
                                                  !.nodeType = 0, !.len = 0])]
    ELSE d

(* default propagation: each generic command goes to every device whose list *)
(* has no entry of that name; the new record borrows every field             *)
PropagateTo(ctx, d, c, ci, di) ==
    IF getCommandNode(d.cmdPtr, 1, c.name) = 0
    THEN [d EXCEPT !.cmdPtr = Append(@, [c EXCEPT !.node = Lbl(ctx.g, <<ci, di>>, "prop"),
                                                  !.nodeType = 0])]
    ELSE d

RECURSIVE PropagateAll(_, _, _, _)
PropagateAll(ctx, devs, cmds, ci) ==
    IF ci > Len(cmds) THEN devs
    ELSE PropagateAll(ctx, [di \in 1..Len(devs) |-> PropagateTo(ctx, devs[di], cmds[ci], ci, di)],
                      cmds, ci + 1)

PropAllocs(devs) ==
    UNION {{devs[di].cmdPtr[k].node :
                k \in {j \in 1..Len(devs[di].cmdPtr) : devs[di].cmdPtr[j].nodeType = 0}} :
           di \in 1..Len(devs)}

Propagate ==
    /\ pc = "loop" /\ loc.cur = NULL
    /\ LET devs == PropagateAll(Ctx, loc.TdevPtr, loc.TcmdPtr, 1) IN
       /\ loc' = [loc EXCEPT !.TdevPtr = devs]
       /\ heap' = heap \cup PropAllocs(devs)
    /\ pc' = "default"
    /\ UNCHANGED <<protoPtr, uPtr, devPtr, cmdPtr, cfgPtr, badFree, gen, littleEndian, query, loaded, pre, last>>

(* a search for the default device that goes on when there is none *)
ResolveDefault_Tolerant ==
    /\ pc = "default"
    /\ IF loc.TcfgPtr = <<>> \/ (loc.TdevPtr # <<>> /\ loc.TcfgPtr[1].devID.ref = NOLBL)
       THEN Stuck("crash", {})
       ELSE LET i == getDeviceNode(loc.TdevPtr, 1, loc.TcfgPtr[1].devID.val) IN
            /\ loc' = [loc EXCEPT !.TcfgPtr =
                          <<[@[1] EXCEPT !.devPtr = IF i = 0 THEN NOLBL ELSE loc.TdevPtr[i].node]>>]
            /\ pc' = "freeProtocols"
            /\ UNCHANGED <<protoPtr, uPtr, devPtr, cmdPtr, cfgPtr, heap, badFree, gen,
                           littleEndian, query, loaded, pre, last>>

(* the search for the default device *)
ResolveDefault ==
    /\ pc = "default"
    /\ IF loc.TcfgPtr = <<>> \/ (loc.TdevPtr # <<>> /\ loc.TcfgPtr[1].devID.ref = NOLBL)
       THEN Stuck("crash", {})
       ELSE LET i == getDeviceNode(loc.TdevPtr, 1, loc.TcfgPtr[1].devID.val) IN
            IF i = 0 THEN Return0({})
            ELSE /\ loc' = [loc EXCEPT !.TcfgPtr = <<[@[1] EXCEPT !.devPtr = loc.TdevPtr[i].node]>>]
                 /\ pc' = "freeProtocols"
                 /\ UNCHANGED <<protoPtr, uPtr, devPtr, cmdPtr, cfgPtr, heap, badFree, gen,
                                littleEndian, query, loaded, pre, last>>

(* ---------------------------------------------------------- freeAllLists *)
FreeStep(from, to, seq) ==
    /\ pc = from
    /\ pc' = to
    /\ LET hb == FreeSeq([heap |-> heap, bad |-> badFree], seq) IN
       heap' = hb.heap /\ badFree' = hb.bad
    /\ UNCHANGED <<loc, gen, littleEndian, query, loaded, pre, last>>

FreeProtocols ==
    FreeStep("freeProtocols", "freeUnits", removeProtocolList(protoPtr))
    /\ UNCHANGED <<protoPtr, uPtr, devPtr, cmdPtr, cfgPtr>>
FreeUnits ==
    FreeStep("freeUnits", "freeDevices", removeUnitList(uPtr))
    /\ UNCHANGED <<protoPtr, uPtr, devPtr, cmdPtr, cfgPtr>>
FreeDevices ==
    FreeStep("freeDevices", "freeCommands", removeDeviceList(devPtr))
    /\ UNCHANGED <<protoPtr, uPtr, devPtr, cmdPtr, cfgPtr>>
FreeCommands ==
    FreeStep("freeCommands", "nullProto", removeCommandList(cmdPtr))
    /\ UNCHANGED <<protoPtr, uPtr, devPtr, cmdPtr, cfgPtr>>

NullProto ==
    FreeStep("nullProto", "nullUnit", <<>>) /\ protoPtr' = <<>>
    /\ UNCHANGED <<uPtr, devPtr, cmdPtr, cfgPtr>>
NullUnit ==
    FreeStep("nullUnit", "nullDev", <<>>) /\ uPtr' = <<>>
    /\ UNCHANGED <<protoPtr, devPtr, cmdPtr, cfgPtr>>
NullDev ==
    FreeStep("nullDev", "nullCmd", <<>>) /\ devPtr' = <<>>
    /\ UNCHANGED <<protoPtr, uPtr, cmdPtr, cfgPtr>>
NullCmd ==
    FreeStep("nullCmd", "freeConfig", <<>>) /\ cmdPtr' = <<>>
    /\ UNCHANGED <<protoPtr, uPtr, devPtr, cfgPtr>>
FreeConfig ==
    FreeStep("freeConfig", "setProto", removeConfig(cfgPtr)) /\ cfgPtr' = <<>>
    /\ UNCHANGED <<protoPtr, uPtr, devPtr, cmdPtr>>

(* ------------------------------------- parseXMLFile: the new lists go live *)
SetProto ==
    FreeStep("setProto", "setUnit", <<>>) /\ protoPtr' = loc.TprotoPtr
    /\ UNCHANGED <<uPtr, devPtr, cmdPtr, cfgPtr>>
SetUnit ==
    FreeStep("setUnit", "setDev", <<>>) /\ uPtr' = loc.TuPtr
    /\ UNCHANGED <<protoPtr, devPtr, cmdPtr, cfgPtr>>
(* a success path that forgets the assignment devPtr = TdevPtr *)
SetDev_Missing ==
    FreeStep("setDev", "setCmd", <<>>) /\ devPtr' = devPtr
    /\ UNCHANGED <<protoPtr, uPtr, cmdPtr, cfgPtr>>
SetDev ==
    FreeStep("setDev", "setCmd", <<>>) /\ devPtr' = loc.TdevPtr
    /\ UNCHANGED <<protoPtr, uPtr, cmdPtr, cfgPtr>>
SetCmd ==
    FreeStep("setCmd", "setCfg", <<>>) /\ cmdPtr' = loc.TcmdPtr
    /\ UNCHANGED <<protoPtr, uPtr, devPtr, cfgPtr>>
(* a success path that forgets the assignment cfgPtr = TcfgPtr *)
SetCfg_Missing ==
    FreeStep("setCfg", "freeDoc", <<>>) /\ cfgPtr' = cfgPtr
    /\ UNCHANGED <<protoPtr, uPtr, devPtr, cmdPtr>>
SetCfg ==
    FreeStep("setCfg", "freeDoc", <<>>) /\ cfgPtr' = loc.TcfgPtr
    /\ UNCHANGED <<protoPtr, uPtr, devPtr, cmdPtr>>

(* xmlFreeDoc(doc); return 1 *)
FreeDoc ==
    /\ pc = "freeDoc"
    /\ LET hb == FreeSeq([heap |-> heap, bad |-> badFree], <<DocLbl>>) IN
       /\ heap' = hb.heap /\ badFree' = hb.bad
       /\ Return(loc.doc, 1, hb.heap, handles)
    /\ UNCHANGED <<protoPtr, uPtr, devPtr, cmdPtr, cfgPtr, gen, littleEndian, query, pre>>
    /\ loaded' = TRUE

Next ==
    \/ \E d \in MainDocs, w \in BOOLEAN : StartReload(d, w)
    \/ LoopBlank \/ LoopOther \/ LoopUnix \/ LoopExtern
    \/ LoopProtocols \/ LoopUnits \/ LoopCommands \/ LoopDevices \/ LoopConfig
    \/ Propagate \/ ResolveDefault
    \/ FreeProtocols \/ FreeUnits \/ FreeDevices \/ FreeCommands
    \/ NullProto \/ NullUnit \/ NullDev \/ NullCmd \/ FreeConfig
    \/ SetProto \/ SetUnit \/ SetDev \/ SetCmd \/ SetCfg
    \/ FreeDoc

Spec == Init /\ [][Next]_vars

(* the same calls on the documents of the structural cases *)
NextCases ==
    \/ \E d \in CaseDocs, w \in BOOLEAN : StartReload(d, w)
    \/ LoopBlank \/ LoopOther \/ LoopUnix \/ LoopExtern
    \/ LoopProtocols \/ LoopUnits \/ LoopCommands \/ LoopDevices \/ LoopConfig
    \/ Propagate \/ ResolveDefault
    \/ FreeProtocols \/ FreeUnits \/ FreeDevices \/ FreeCommands
    \/ NullProto \/ NullUnit \/ NullDev \/ NullCmd \/ FreeConfig
    \/ SetProto \/ SetUnit \/ SetDev \/ SetCmd \/ SetCfg
    \/ FreeDoc

SpecCases == Init /\ [][NextCases]_vars

(* the same calls on the documents with a faulty entry *)
NextFaults ==
    \/ \E d \in FaultDocs, w \in BOOLEAN : StartReload(d, w)
    \/ LoopBlank \/ LoopOther \/ LoopUnix \/ LoopExtern
    \/ LoopProtocols \/ LoopUnits \/ LoopCommands \/ LoopDevices \/ LoopConfig
    \/ Propagate \/ ResolveDefault
    \/ FreeProtocols \/ FreeUnits \/ FreeDevices \/ FreeCommands
    \/ NullProto \/ NullUnit \/ NullDev \/ NullCmd \/ FreeConfig
    \/ SetProto \/ SetUnit \/ SetDev \/ SetCmd \/ SetCfg
    \/ FreeDoc

SpecFaults == Init /\ [][NextFaults]_vars

(* the same calls on the documents with the sections in another order *)
NextOrder ==
    \/ \E d \in OrderDocs, w \in BOOLEAN : StartReload(d, w)
    \/ LoopBlank \/ LoopOther \/ LoopUnix \/ LoopExtern
    \/ LoopProtocols \/ LoopUnits \/ LoopCommands \/ LoopDevices \/ LoopConfig
    \/ Propagate \/ ResolveDefault
    \/ FreeProtocols \/ FreeUnits \/ FreeDevices \/ FreeCommands
    \/ NullProto \/ NullUnit \/ NullDev \/ NullCmd \/ FreeConfig
    \/ SetProto \/ SetUnit \/ SetDev \/ SetCmd \/ SetCfg
    \/ FreeDoc

SpecOrder == Init /\ [][NextOrder]_vars

(* the same calls on the documents with nested device elements *)
NextNested ==
    \/ \E d \in NestedDocs, w \in BOOLEAN : StartReload(d, w)
    \/ LoopBlank \/ LoopOther \/ LoopUnix \/ LoopExtern
    \/ LoopProtocols \/ LoopUnits \/ LoopCommands \/ LoopDevices \/ LoopConfig
    \/ Propagate \/ ResolveDefault
    \/ FreeProtocols \/ FreeUnits \/ FreeDevices \/ FreeCommands
    \/ NullProto \/ NullUnit \/ NullDev \/ NullCmd \/ FreeConfig
    \/ SetProto \/ SetUnit \/ SetDev \/ SetCmd \/ SetCfg
    \/ FreeDoc

SpecNested == Init /\ [][NextNested]_vars

(* calls that may arrive while a call is running *)
ReentryDocs == {1, 10}
NextReentry ==
    \/ \E d \in ReentryDocs, w \in BOOLEAN : StartReload(d, w)
    \/ \E d \in ReentryDocs, w \in BOOLEAN : Reenter(d, w)
    \/ LoopBlank \/ LoopOther \/ LoopUnix \/ LoopExtern
    \/ LoopProtocols \/ LoopUnits \/ LoopCommands \/ LoopDevices \/ LoopConfig
    \/ Propagate \/ ResolveDefault
    \/ FreeProtocols \/ FreeUnits \/ FreeDevices \/ FreeCommands
    \/ NullProto \/ NullUnit \/ NullDev \/ NullCmd \/ FreeConfig
    \/ SetProto \/ SetUnit \/ SetDev \/ SetCmd \/ SetCfg
    \/ FreeDoc

SpecReentry == Init /\ [][NextReentry]_vars

(* ------------------------------------------------- properties of a reload *)
Candidate == <<loc.TprotoPtr, loc.TuPtr, loc.TdevPtr, loc.TcmdPtr, loc.TcfgPtr>>
Failed == pc = "idle" /\ last # <<>> /\ last[1].ret = 0
TwiceTheSame ==
    /\ pc = "idle" /\ Len(last) = 2
    /\ last[1].ret = 1 /\ last[2].ret = 1 /\ last[1].doc = last[2].doc

(* C1: a parseXMLFile call that returns 0, at whatever stage, leaves the five *)
(* live handles as they were before the call, frees nothing that was          *)
(* reachable from them, and so every lookup answers as before the call.       *)
C1_FailedReloadKeepsModel ==
    Failed =>
        /\ handles = pre.handles
        /\ (Reach(pre.handles) \cap pre.heap) \subseteq heap
        /\ Answers(handles) = Answers(pre.handles)

(* a model is live, and a later call fails only at the default-device search *)
C1_Witness ==
    /\ Failed /\ last[1].at = "default"
    /\ Len(last) = 2 /\ last[2].ret = 1
    /\ cfgPtr # <<>> /\ cmdPtr # <<>>

(* C2: in a successful reload the handles are repointed first and the old   *)
(* generation is released afterwards: no step frees an allocation that is   *)
(* reachable from the five live handles at that step.                       *)
C2_SwapThenRelease ==
    [][\A l \in heap \ heap' : l \notin Reach(handles)]_vars

(* C3: once a call has returned 1, whoever reads the five handles between   *)
(* two steps of a later call sees one complete generation: the five handles *)
(* are those of the live generation or those of the candidate, all five of  *)
(* the same one, and nothing reachable from them has been freed.            *)
C3_ReadersSeeOneGeneration ==
    (loaded /\ pc \notin {"idle", "crashed", "hung"}) =>
        /\ handles = pre.handles \/ handles = Candidate
        /\ Reach(handles) \subseteq heap

(* C4: a call that fails in a section builder or at the default-device     *)
(* search has released the candidate and the parsed document when it        *)
(* returns: the allocations are those of before the call.                   *)
C4_FailedReloadReleasesCandidate ==
    (Failed /\ last[1].at \in {"loop", "default"}) => heap = pre.heap

(* C5: two successful calls in succession on the same document answer every *)
(* lookup alike, and the second leaves as many allocations as the first.    *)
C5_ReloadTwiceIsIdempotent ==
    TwiceTheSame =>
        /\ last[1].answers = last[2].answers
        /\ last[1].count = last[2].count

(* --------------------------------------------- what a document declares *)
Below(root, S) == UNION {{q \o <<i>> : i \in 1..Len(NodeAt(root, q).kids)} : q \in S}
Elements(root) ==
    LET p1 == Below(root, {<<>>})
        p2 == Below(root, p1)
        p3 == Below(root, p2)
        p4 == Below(root, p3)
    IN p1 \cup p2 \cup p3 \cup p4
(* the elements called name whose parent is called parent *)
Declared(root, name, parent) ==
    {q \in Elements(root) : /\ NodeAt(root, q).type = "elem"
                            /\ NodeAt(root, q).name = name
                            /\ NodeAt(root, Front(q)).name = parent}
RECURSIVE KidIndex(_, _, _)
KidIndex(kids, name, i) ==
    IF i > Len(kids) THEN 0
    ELSE IF kids[i].type = "elem" /\ kids[i].name = name THEN i
    ELSE KidIndex(kids, name, i + 1)
HasKid(n, name) == KidIndex(n.kids, name, 1) # 0
KidText(n, name) ==
    LET k == KidIndex(n.kids, name, 1) IN
    IF k # 0 /\ HasText(n.kids[k]) THEN getTextNode(n.kids[k]) ELSE ""
PropText(n, name) == IF HasProp(n, name) THEN getPropertyNode(n, name) ELSE ""
Arg(name) == [ref |-> Lbl(0, <<>>, "arg"), val |-> name]

Loaded == pc = "idle" /\ last # <<>> /\ last[1].ret = 1
LastRoot == Docs[last[1].doc].root

ProtocolsFound(root) ==
    \A q \in Declared(root, "protocol", "protocols") :
        LET n == NodeAt(root, q)
            i == getProtocolNode(protoPtr, 1, PropText(n, "name"))
        IN /\ i # 0
           /\ HasKid(n, "pid") => protoPtr[i].id = hex2chr[KidText(n, "pid")]
MacrosFound(root) ==
    \A q \in Declared(root, "macro", "macros") :
        LET n == NodeAt(root, q)
            i == getProtocolNode(protoPtr, 1, PropText(NodeAt(root, Front(Front(q))), "name"))
            j == getMacroNode(protoPtr[i].mPtr, 1, PropText(n, "name"))
        IN /\ i # 0 /\ j # 0
           /\ protoPtr[i].mPtr[j].command.val = KidText(n, "command")
IcmdsFound(root) ==
    \A q \in Declared(root, "command", "commands") :
        NodeAt(root, Front(Front(q))).name = "protocol" =>
        LET n == NodeAt(root, q)
            i == getProtocolNode(protoPtr, 1, PropText(NodeAt(root, Front(Front(q))), "name"))
            j == getIcmdNode(protoPtr[i].icPtr, 1, PropText(n, "name"))
        IN /\ i # 0 /\ j # 0
           /\ protoPtr[i].icPtr[j].send.val = KidText(n, "send")
           /\ HasKid(n, "retry") => protoPtr[i].icPtr[j].retry = Atoi[KidText(n, "retry")]
EnumsFound(n, u) ==
    \A k \in 1..Len(n.kids) :
        n.kids[k].name = "enum" =>
        LET j == getEnumNode(u.ePtr, 1, [text |-> PropText(n.kids[k], "text"), bytes |-> <<>>], 0, {})
        IN /\ j # 0
           /\ u.ePtr[j].bytes.val =
                 (IF HasProp(n.kids[k], "bytes") THEN string2chr[PropText(n.kids[k], "bytes")] ELSE <<>>)
UnitsFound(root) ==
    \A q \in Declared(root, "unit", "units") :
        LET n == NodeAt(root, q)
            i == getUnitNode(uPtr, 1, KidText(n, "abbrev"))
        IN IF HasKid(n, "abbrev")
           THEN /\ i # 0
                /\ uPtr[i].name.val = PropText(n, "name")
                /\ uPtr[i].type.val = KidText(n, "type")
                /\ uPtr[i].entity.val = KidText(n, "entity")
                /\ EnumsFound(n, uPtr[i])
           ELSE \E k \in 1..Len(uPtr) : uPtr[k].name.val = PropText(n, "name")
DevicesFound(root) ==
    \A q \in Declared(root, "device", "devices") :
        LET n == NodeAt(root, q)
            i == getDeviceNode(devPtr, 1, PropText(n, "ID"))
        IN /\ i # 0
           /\ devPtr[i].name.val = PropText(n, "name")
           /\ \E j \in 1..Len(protoPtr) :
                 /\ protoPtr[j].node = devPtr[i].protoPtr
                 /\ protoPtr[j].name.val = PropText(n, "protocol")
CommandsFound(root) ==
    \A q \in Declared(root, "command", "commands") :
        NodeAt(root, Front(Front(q))).name = "vito" =>
        LET n == NodeAt(root, q)
            i == getCommandNode(cmdPtr, 1, Arg(PropText(n, "name")))
        IN /\ i # 0
           /\ cmdPtr[i].pcmd.val = PropText(n, "protocmd")
           /\ cmdPtr[i].addr.val = KidText(n, "addr")
           /\ cmdPtr[i].unit.val = KidText(n, "unit")
           /\ cmdPtr[i].precmd.val = KidText(n, "precommand")
           /\ cmdPtr[i].description.val = KidText(n, "description")
           /\ HasKid(n, "len") => cmdPtr[i].len = Atoi[KidText(n, "len")]
           /\ HasKid(n, "bit") => cmdPtr[i].bit = Atoi[KidText(n, "bit")]

(* no two generic commands of the document have the same name *)
DistinctCommands(root) ==
    \A q1, q2 \in Declared(root, "command", "commands") :
        (/\ NodeAt(root, Front(Front(q1))).name = "vito"
         /\ NodeAt(root, Front(Front(q2))).name = "vito"
         /\ PropText(NodeAt(root, q1), "name") = PropText(NodeAt(root, q2), "name")) => q1 = q2

(* C6: after a call that returned 1 on a document whose command names are    *)
(* distinct, every protocol, macro, internal command, unit, enumeration,     *)
(* device and command the document declares is found by its lookup and has   *)
(* the declared attributes, also when an element has no child elements.      *)
C6_DeclaredEntitiesFound ==
    (Loaded /\ DistinctCommands(LastRoot)) =>
        /\ ProtocolsFound(LastRoot) /\ MacrosFound(LastRoot) /\ IcmdsFound(LastRoot)
        /\ UnitsFound(LastRoot) /\ DevicesFound(LastRoot) /\ CommandsFound(LastRoot)

(* ------------------------------------------------- default propagation *)
SameFields(r, c) ==
    /\ r.name = c.name /\ r.pcmd = c.pcmd /\ r.addr = c.addr /\ r.unit = c.unit
    /\ r.errStr = c.errStr /\ r.precmd = c.precmd /\ r.description = c.description
    /\ r.bit = c.bit /\ r.len = c.len
(* device d has a record of its own, from a nested device element, for name *)
Overrides(d, name) ==
    \E k \in 1..Len(d.cmdPtr) : d.cmdPtr[k].nodeType = 2 /\ d.cmdPtr[k].name.val = name.val
Exposes(d, c) ==
    LET i == getCommandNode(d.cmdPtr, 1, c.name) IN
    i # 0 /\ SameFields(d.cmdPtr[i], c)

(* C7 as claimed: after a call that returned 1, for every generic command C  *)
(* and every device D without a record of its own for C, looking up C's name *)
(* in D's list gives a record with C's nine fields, pointers included.       *)
C7_EveryGenericCommandExposed ==
    Loaded =>
        \A ci \in 1..Len(cmdPtr), di \in 1..Len(devPtr) :
            ~Overrides(devPtr[di], cmdPtr[ci].name) => Exposes(devPtr[di], cmdPtr[ci])

(* C7 amended: the same for every generic command C that is the first of its *)
(* name in the chain of generic commands.                                    *)
C7_FirstOfNameExposed ==
    Loaded =>
        \A ci \in 1..Len(cmdPtr), di \in 1..Len(devPtr) :
            (/\ getCommandNode(cmdPtr, 1, cmdPtr[ci].name) = ci
             /\ ~Overrides(devPtr[di], cmdPtr[ci].name)) => Exposes(devPtr[di], cmdPtr[ci])

(* a generic command with a length and an error string has reached a device *)
(* without a record of its own, while another device has one                 *)
C7_Witness ==
    /\ Loaded
    /\ \E ci \in 1..Len(cmdPtr), di, dj \in 1..Len(devPtr) :
        /\ cmdPtr[ci].len = 2 /\ cmdPtr[ci].errStr.ref # NOLBL
        /\ Overrides(devPtr[dj], cmdPtr[ci].name)
        /\ ~Overrides(devPtr[di], cmdPtr[ci].name)
        /\ Exposes(devPtr[di], cmdPtr[ci])

(* ------------------------------------------ nested device elements *)
(* the records made from nested device elements that have an addr child and *)
(* nothing else, all fields of the enclosing command being given before it  *)
AddrOnly(root, q) ==
    /\ Len(q) > 1
    /\ NodeAt(root, q).type = "elem" /\ NodeAt(root, q).name = "device"
    /\ NodeAt(root, Front(q)).name = "command"
    /\ Len(NodeAt(root, q).kids) = 1 /\ NodeAt(root, q).kids[1].name = "addr"
    /\ \A j \in (Last(q) + 1)..Len(NodeAt(root, Front(q)).kids) :
          NodeAt(root, Front(q)).kids[j].name = "device"
(* <<di, k, ci>>: record k of device di overrides only the addr of generic ci *)
DeviceRecords == UNION {{<<di, k>> : k \in 1..Len(devPtr[di].cmdPtr)} : di \in 1..Len(devPtr)}
AddrOverrides ==
    {t \in {<<x[1], x[2], ci>> : x \in DeviceRecords, ci \in 1..Len(cmdPtr)} :
        /\ devPtr[t[1]].cmdPtr[t[2]].nodeType = 2
        /\ AddrOnly(LastRoot, devPtr[t[1]].cmdPtr[t[2]].node.p)
        /\ cmdPtr[t[3]].node.p = Front(devPtr[t[1]].cmdPtr[t[2]].node.p)}
Rec(t) == devPtr[t[1]].cmdPtr[t[2]]
Gen(t) == cmdPtr[t[3]]
NestedElem(t) == NodeAt(LastRoot, Rec(t).node.p)
Aliased(t) ==
    /\ Rec(t).addr.val = KidText(NestedElem(t), "addr")
    /\ Rec(t).name = Gen(t).name
    /\ Rec(t).description = Gen(t).description

Seqs(S, n) == UNION {[1..k -> S] : k \in 1..n}
Least(S) == IF S = {} THEN 0 ELSE CHOOSE i \in S : \A j \in S : i <= j
LookupCtx(root) == [doc |-> root, g |-> 1, wild |-> FALSE, littleEndian |-> littleEndian]

(* a unit is compiled from its enum elements; then getEnumNode is asked once *)
EnumChoices == {Enum("on", "01"), Enum("off", "00"), Enum("both", "01 02"), EnumDefault("auto")}
UnitDoc(es) ==
    Elem("V-Control", <<>>,
         <<Elem("units", <<>>, <<Elem("unit", <<<<"name", "Mode">>>>, <<Leaf("abbrev", "MO")>> \o es)>>)>>)
Searches ==
    {[text |-> "", bytes |-> b, len |-> Len(b)] : b \in {<<1>>, <<0>>, <<2>>, <<1, 2>>, <<1, 3>>}}
    \cup {[text |-> t, bytes |-> <<>>, len |-> 0] : t \in {"on", "off", "auto", "none"}}
    \cup {[text |-> "", bytes |-> <<>>, len |-> -1]}

LoadUnit(es) ==
    /\ pc = "idle" /\ gen = 0 /\ query = NoQuery
    /\ LET r == parseUnit(LookupCtx(UnitDoc(es)), <<1, 1>>) IN
       /\ r.status = "ret"
       /\ uPtr' = r.ret
       /\ heap' = r.allocs
    /\ gen' = 1
    /\ UNCHANGED <<protoPtr, devPtr, cmdPtr, cfgPtr, badFree, pc, loc, littleEndian, query,
                   pre, last, loaded>>

AskEnum(s, over) ==
    /\ pc = "idle" /\ uPtr # <<>> /\ query = NoQuery
    /\ query' = [kind |-> "enum", search |-> s,
                 ret |-> getEnumNode(uPtr[1].ePtr, 1, s, s.len, over)]
    /\ UNCHANGED <<protoPtr, uPtr, devPtr, cmdPtr, cfgPtr, heap, badFree, pc, loc, gen,
                   littleEndian, pre, last, loaded>>

NextEnum ==
    \/ \E es \in Seqs(EnumChoices, MaxEnums) : LoadUnit(es)
    \/ \E s \in Searches, over \in SUBSET (1..(MaxEnums + 1)) : AskEnum(s, over)

SpecEnum == Init /\ [][NextEnum]_vars

Asked == query.kind = "enum"
Enums == uPtr[1].ePtr
Pattern == SubSeq(query.search.bytes, 1, query.search.len)
WithPattern == {i \in 1..Len(Enums) : Enums[i].bytes.ref # NOLBL /\ Enums[i].bytes.val = Pattern}
WithText == {i \in 1..Len(Enums) : Enums[i].text.val = query.search.text}
Defaults == {i \in 1..Len(Enums) : Enums[i].bytes.ref = NOLBL}
(* entries whose pattern starts with the len bytes searched for, and entries *)
(* that agree with them as far as their own bytes go                         *)
StartsWith ==
    {i \in 1..Len(Enums) :
        /\ Enums[i].bytes.ref # NOLBL /\ Len(Enums[i].bytes.val) >= query.search.len
        /\ SubSeq(Enums[i].bytes.val, 1, query.search.len) = Pattern}
AgreesWith ==
    {i \in 1..Len(Enums) :
        /\ Enums[i].bytes.ref # NOLBL
        /\ \A k \in 1..Len(Enums[i].bytes.val) :
              k <= query.search.len => Enums[i].bytes.val[k] = Pattern[k]}

(* C9 as claimed: a lookup with a byte pattern returns the entry whose byte  *)
(* pattern equals it; a lookup by text with no byte pattern returns the      *)
(* entry with that text; a lookup with a byte pattern that no entry has      *)
(* returns the default entry, the one without a byte pattern.                *)
C9_BytesThenTextThenDefault ==
    Asked =>
        /\ (query.search.len > 0 /\ WithPattern # {}) => query.ret \in WithPattern
        /\ (query.search.len = 0 /\ WithText # {}) => query.ret \in WithText
        /\ (query.search.len > 0 /\ WithPattern = {} /\ Defaults # {}) => query.ret \in Defaults

(* C9 amended: getEnumNode looks in one way only, chosen by len.  len > 0:   *)
(* the first entry whose pattern starts with the len bytes searched for, an  *)
(* earlier entry with fewer bytes that all agree being returned or passed    *)
(* over, and NULL when no pattern starts with them; len = 0: the first entry *)
(* with that text, else NULL; len < 0: the first entry without a byte        *)
(* pattern, else NULL.                                                       *)
C9_OneWayByLen ==
    Asked =>
        /\ query.search.len > 0 =>
              /\ query.ret \in AgreesWith \cup {0}
              /\ query.ret = 0 => StartsWith = {}
              /\ query.ret # 0 => \A j \in StartsWith : query.ret <= j
        /\ query.search.len = 0 => query.ret = Least(WithText)
        /\ query.search.len < 0 => query.ret = Least(Defaults)

(* a unit with patterns and a default was asked for a pattern none of its *)
(* entries has, and the answer was NULL                                    *)
C9_Witness ==
    /\ Asked /\ query.search.len = 1 /\ Len(Enums) = 3
    /\ WithPattern = {} /\ AgreesWith = {} /\ Defaults # {} /\ StartsWith = {}
    /\ \E i \in 1..Len(Enums) : Enums[i].bytes.ref # NOLBL
    /\ query.ret = 0

(* the number a sequence of decimal digits writes *)
RECURSIVE DigitsFrom(_, _, _)
DigitsFrom(cs, i, acc) == IF i > Len(cs) THEN acc ELSE DigitsFrom(cs, i + 1, acc * 10 + Digit[cs[i]])
Digits(cs) == DigitsFrom(cs, 1, 0)

(* a config is compiled from its allow elements; then getAllowNode is asked *)
(* once.  A rule is its text with the address and the size the text means;  *)
(* ok tells whether the address of the text is a well-formed literal.       *)
Dotted(a, b, c, d) == a \o <<".">> \o b \o <<".">> \o c \o <<".">> \o d
Rule(a, b, c, d, n) ==
    [text |-> Dotted(a, b, c, d) \o <<"/">> \o n, ip |-> <<Digits(a), Digits(b), Digits(c), Digits(d)>>,
     n |-> Digits(n), ok |-> TRUE]
Malformed(text) == [text |-> text, ip |-> Zero32, n |-> 0, ok |-> FALSE]
RuleChoices ==
    {Rule(<<"1", "0">>, <<"0">>, <<"0">>, <<"0">>, <<"2", "4">>),
     Rule(<<"1", "0">>, <<"0">>, <<"1">>, <<"0">>, <<"2", "4">>),
     Rule(<<"1", "0">>, <<"0">>, <<"0">>, <<"5">>, <<"3", "2">>),
     Rule(<<"1", "9", "2">>, <<"1", "6", "8">>, <<"0">>, <<"0">>, <<"1", "7">>),
     Rule(<<"1", "2", "8">>, <<"0">>, <<"0">>, <<"0">>, <<"1">>),
     Rule(<<"2", "5", "5">>, <<"2", "5", "5">>, <<"2", "5", "5">>, <<"2", "5", "5">>, <<"8">>),
     Rule(<<"0">>, <<"0">>, <<"0">>, <<"0">>, <<"0">>),
     [text |-> Dotted(<<"1">>, <<"2">>, <<"3">>, <<"4">>), ip |-> <<1, 2, 3, 4>>, n |-> 32, ok |-> TRUE],
     Malformed(Dotted(<<"1", "0">>, <<"0">>, <<"0">>, <<"2", "5", "6">>) \o <<"/", "2", "4">>),
     Malformed(Dotted(<<"1", "0">>, <<"x">>, <<"0">>, <<"1">>)),
     Malformed(Dotted(<<"1", "9", "2">>, <<"1", "6", "8">>, <<"1", "0", "0">>, <<"1", "0", "0">>)
               \o <<".", "1">>),
     Malformed(Dotted(<<"1", "9", "2">>, <<"1", "6", "8">>, <<"1", "0", "0">>, <<"1", "0", "0">>)
               \o <<".", "1", "/", "8">>)}
TestAddresses ==
    {<<10, 0, 0, 5>>, <<10, 0, 1, 7>>, <<1, 2, 3, 4>>, <<192, 168, 127, 9>>, <<255, 1, 2, 3>>,
     <<200, 0, 0, 1>>}
ConfigDoc(rules) ==
    Elem("V-Control", <<>>,
         <<Elem("unix", <<>>, <<ConfigSec("A", [k \in 1..Len(rules) |-> Allow(rules[k].text)])>>)>>)

LoadConfig(rules, w) ==
    /\ pc = "idle" /\ gen = 0 /\ query = NoQuery
    /\ LET r == parseConfig([LookupCtx(ConfigDoc(rules)) EXCEPT !.wild = w], <<1, 1, 1>>) IN
       /\ cfgPtr' = r.ret
       /\ heap' = r.allocs
       /\ pc' = IF r.status = "ret" THEN "idle" ELSE "crashed"
       /\ query' = [kind |-> "rules", rules |-> rules, status |-> r.status]
    /\ gen' = 1
    /\ UNCHANGED <<protoPtr, uPtr, devPtr, cmdPtr, badFree, loc, littleEndian, pre, last, loaded>>

(* the caller hands over the peer's address in network byte order *)
AskAllow(ip) ==
    /\ pc = "idle" /\ cfgPtr # <<>> /\ query.kind = "rules"
    /\ query' = [kind |-> "allow", rules |-> query.rules, testIP |-> ip,
                 ret |-> getAllowNode(LookupCtx(ConfigDoc(query.rules)), cfgPtr[1].aPtr, 1,
                                      htonl(LookupCtx(ConfigDoc(query.rules)), ip))]
    /\ UNCHANGED <<protoPtr, uPtr, devPtr, cmdPtr, cfgPtr, heap, badFree, pc, loc, gen,
                   littleEndian, pre, last, loaded>>

NextAllow ==
    \/ \E rules \in Seqs(RuleChoices, MaxRules), w \in BOOLEAN : LoadConfig(rules, w)
    \/ \E ip \in TestAddresses : AskAllow(ip)

SpecAllow == Init /\ [][NextAllow]_vars

(* the word with n leading one bits *)
LeadingOnes(n) ==
    LET octet(i) == IF n >= 8 * i THEN 255
                    ELSE IF n <= 8 * (i - 1) THEN 0
                    ELSE 256 - 2 ^ (8 * i - n)
    IN <<octet(1), octet(2), octet(3), octet(4)>>
TopBitsEqual(rule, ip) == And32(rule.ip, LeadingOnes(rule.n)) = And32(ip, LeadingOnes(rule.n))
Stored == cfgPtr[1].aPtr

(* the config compiled from the document without its malformed rules *)
SelectRules(rules) == SelectSeq(rules, LAMBDA r : r.ok)
WithoutMalformed ==
    parseConfig(LookupCtx(ConfigDoc(SelectRules(query.rules))), <<1, 1, 1>>)

(* C11: a rule whose address literal is malformed is left out and the build *)
(* of the config section goes on: parseConfig returns a Config whose Allow  *)
(* list holds exactly the rules with a well-formed address, in declared     *)
(* order, and the Config is the one the document without the malformed      *)
(* rules gives.                                                             *)
C11_MalformedRulesSkipped ==
    query.kind = "rules" =>
        /\ query.status = "ret"
        /\ [j \in 1..Len(Stored) |-> Stored[j].text.val]
              = [k \in 1..Len(SelectRules(query.rules)) |-> SelectRules(query.rules)[k].text]
        /\ ConfigView(cfgPtr[1]) = ConfigView(WithoutMalformed.ret[1])

(* C10: every rule a.b.c.d/n of the config (n = 32 without a suffix) is     *)
(* stored with a mask of n leading one bits, and getAllowNode returns the   *)
(* first rule in declared order whose top n bits equal those of the address *)
(* asked for, NULL when there is none.                                      *)
C10_FirstMatchingRule ==
    query.kind = "allow" =>
        LET wellFormed == {k \in 1..Len(query.rules) : query.rules[k].ok}
            first == Least({k \in wellFormed : TopBitsEqual(query.rules[k], query.testIP)})
        IN
        /\ \A k \in wellFormed :
              \E j \in 1..Len(Stored) : /\ Stored[j].text.val = query.rules[k].text
                                        /\ Stored[j].mask = LeadingOnes(query.rules[k].n)
        /\ IF first = 0 THEN query.ret = 0
           ELSE query.ret # 0 /\ Stored[query.ret].text.val = query.rules[first].text

(* --------------------------------------------------- name references *)
Returned == pc = "idle" /\ last # <<>>

(* the elements called name whose parent is called parent, one level deeper *)
(* than Declared reaches: the fields and nested devices of a command       *)
Inner(root, name, parent) ==
    {q \in Below(root, Elements(root)) : /\ NodeAt(root, q).type = "elem"
                                         /\ NodeAt(root, q).name = name
                                         /\ NodeAt(root, Front(q)).name = parent}
DeviceIds(root) == {PropText(NodeAt(root, q), "ID") : q \in Declared(root, "device", "devices")}
ProtocolNames(root) ==
    {PropText(NodeAt(root, q), "name") : q \in Declared(root, "protocol", "protocols")}
UnitAbbrevs(root) == {KidText(NodeAt(root, q), "abbrev") : q \in Declared(root, "unit", "units")}

UnresolvedUnit(root) ==
    \E q \in Inner(root, "unit", "command") :
        HasText(NodeAt(root, q)) /\ getTextNode(NodeAt(root, q)) \notin UnitAbbrevs(root)
UnresolvedProtocol(root) ==
    \E q \in Declared(root, "device", "devices") :
        PropText(NodeAt(root, q), "protocol") \notin ProtocolNames(root)
UnresolvedNested(root) ==
    \E q \in Inner(root, "device", "command") : PropText(NodeAt(root, q), "ID") \notin DeviceIds(root)
UnresolvedDefault(root) ==
    \E q \in Declared(root, "device", "config") : PropText(NodeAt(root, q), "ID") \notin DeviceIds(root)

(* C12 as claimed: a call that returns on a document in which a command's   *)
(* unit names no unit, a device's protocol names no protocol, a nested      *)
(* device ID names no device or the default device id names no device,      *)
(* returns 0 and leaves the handles as they were.                           *)
C12_EveryUnresolvedReferenceFatal ==
    (/\ Returned
     /\ \/ UnresolvedUnit(LastRoot) \/ UnresolvedProtocol(LastRoot)
        \/ UnresolvedNested(LastRoot) \/ UnresolvedDefault(LastRoot))
    => last[1].ret = 0 /\ handles = pre.handles

(* in the installed model: every device points to the protocol of the chain *)
(* that its element names; every device-specific record hangs on the device *)
(* its nested element names; the default device is the device of the chain  *)
(* whose id the config holds                                                *)
ProtocolsResolved(root) ==
    \A i \in 1..Len(devPtr) :
        \E j \in 1..Len(protoPtr) :
            /\ devPtr[i].protoPtr = protoPtr[j].node
            /\ protoPtr[j].name.val = PropText(NodeAt(root, devPtr[i].node.p), "protocol")
NestedResolved(root) ==
    \A i \in 1..Len(devPtr) : \A k \in 1..Len(devPtr[i].cmdPtr) :
        devPtr[i].cmdPtr[k].nodeType = 2 =>
            PropText(NodeAt(root, devPtr[i].cmdPtr[k].node.p), "ID") = devPtr[i].id.val
DefaultResolved ==
    \E i \in 1..Len(devPtr) :
        /\ cfgPtr[1].devPtr = devPtr[i].node
        /\ cfgPtr[1].devID.val = devPtr[i].id.val

(* C12, amended: a call that returns 1 installs a model in which every      *)
(* device's protocol, every nested device ID and the default device id are  *)
(* resolved, and a call that returns 0 leaves the handles as they were; a   *)
(* command's unit is stored as written, without a lookup.                   *)
C12_InstalledReferencesResolved ==
    Returned =>
        /\ last[1].ret = 1 =>
              /\ ProtocolsResolved(LastRoot) /\ NestedResolved(LastRoot) /\ DefaultResolved
              /\ \A q \in Inner(LastRoot, "unit", "command") :
                    \E i \in 1..Len(cmdPtr) : /\ cmdPtr[i].node.p = Front(q)
                                              /\ cmdPtr[i].unit.val = KidText(NodeAt(LastRoot, Front(q)), "unit")
        /\ last[1].ret = 0 => handles = pre.handles

(* the unknown unit is installed, after the call before it failed on an     *)
(* unresolved reference                                                     *)
C12_Witness ==
    /\ Returned /\ last[1].ret = 1 /\ UnresolvedUnit(LastRoot)
    /\ getCommandNode(cmdPtr, 1, Arg("getTemp")) # 0
    /\ cmdPtr[getCommandNode(cmdPtr, 1, Arg("getTemp"))].unit.val = "XX"
    /\ Len(last) = 2 /\ last[2].ret = 0
    /\ \/ UnresolvedProtocol(Docs[last[2].doc].root)
       \/ UnresolvedNested(Docs[last[2].doc].root)
       \/ UnresolvedDefault(Docs[last[2].doc].root)

(* ----------------------------------------------------------- re-entrancy *)
(* C13: a call of parseXMLFile that arrives while another call is running   *)
(* is turned away or runs after that call has returned, so no call is ever  *)
(* between two steps of another; and nothing is freed that is not allocated *)
(* (the previously live lists are released at most once).                   *)
C13_ReloadsNeverInterleave ==
    /\ loc.outer = <<>>
    /\ badFree = {}

(* ------------------------------------------------- Unloaded and Loaded *)
Generations(h) == {l.g : l \in Reach(h) \ {NOLBL}}

(* C14: between calls of parseXMLFile the process is in one of two states:  *)
(* Unloaded, where no call has returned 1 so far and every handle is NULL   *)
(* (getConfig returns NULL), or Loaded, where some call has returned 1, the *)
(* config handle is set, and what the handles reach is allocated and was    *)
(* built by one and the same call; Loaded is never left.                    *)
C14_UnloadedOrLoaded ==
    pc = "idle" =>
        /\ (cfgPtr = <<>>) <=> ~loaded
        /\ ~loaded => handles = <<<<>>, <<>>, <<>>, <<>>, <<>>>>
        /\ loaded => /\ Reach(handles) \subseteq heap
                     /\ Cardinality(Generations(handles)) = 1

(* Loaded by the call before the last; the last call failed in the section  *)
(* loop, and the live generation is still that of the call before it        *)
C14_Witness ==
    /\ pc = "idle" /\ loaded /\ gen = MaxReloads
    /\ Len(last) = 2 /\ last[1].ret = 0 /\ last[1].at = "loop" /\ last[2].ret = 1
    /\ Generations(handles) = {gen - 1}

(* ------------------------------------------- the walk through a section *)
(* a units section is compiled from its children: units whose children are  *)
(* fields and whitespace-only text nodes, and whitespace-only text nodes    *)
(* between the units                                                        *)
SectionKids ==
    {Blank,
     Elem("unit", <<<<"name", "A">>>>, <<Leaf("abbrev", "AA"), Blank>>),
     Elem("unit", <<<<"name", "B">>>>, <<Blank, Leaf("abbrev", "BB"), Blank, Leaf("type", "short")>>),
     Elem("unit", <<<<"name", "C">>>>, <<Blank>>),
     Elem("unit", <<<<"name", "D">>>>, <<Leaf("abbrev", "DD"), Blank, Blank>>),
     Elem("unit", <<<<"name", "E">>>>, <<Leaf("abbrev", "EE")>>)}
SectionDoc(kids) == Elem("V-Control", <<>>, <<Elem("units", <<>>, kids)>>)

WalkUnits(kids) ==
    /\ pc = "idle" /\ gen = 0 /\ query = NoQuery
    /\ LET r == parseUnit(LookupCtx(SectionDoc(kids)), <<1, 1>>) IN
       /\ uPtr' = r.ret
       /\ heap' = r.allocs
       /\ pc' = IF r.status = "ret" THEN "idle" ELSE IF r.status = "crash" THEN "crashed" ELSE "hung"
       /\ query' = [kind |-> "walk", kids |-> kids, status |-> r.status]
    /\ gen' = 1
    /\ UNCHANGED <<protoPtr, devPtr, cmdPtr, cfgPtr, badFree, loc, littleEndian, pre, last, loaded>>

NextWalk == \E kids \in Seqs(SectionKids, MaxKids) : WalkUnits(kids)

SpecWalk == Init /\ [][NextWalk]_vars

(* the units a section declares, in document order, and the units built *)
UnitElements(kids) == SelectSeq(kids, LAMBDA n : n.type = "elem")
DeclaredUnits(kids) ==
    [k \in 1..Len(UnitElements(kids)) |->
        [name |-> PropText(UnitElements(kids)[k], "name"),
         abbrev |-> KidText(UnitElements(kids)[k], "abbrev"),
         type |-> KidText(UnitElements(kids)[k], "type")]]
BuiltUnits ==
    [k \in 1..Len(uPtr) |->
        [name |-> uPtr[k].name.val, abbrev |-> uPtr[k].abbrev.val, type |-> uPtr[k].type.val]]

(* C15: parseUnit, walking a section whose children are units interleaved   *)
(* with whitespace-only text nodes, returns and has built one Unit for each *)
(* unit element, in document order, each with the fields its element holds; *)
(* no text node is taken for an element, and a trailing whitespace node     *)
(* inside a unit does not end the section.                                  *)
C15_EveryElementVisitedOnce ==
    query.kind = "walk" =>
        /\ query.status = "ret"
        /\ BuiltUnits = DeclaredUnits(query.kids)

(* ------------------------------------------------------------ termination *)
(* C16: whatever the document, also one with an element that lacks its name *)
(* attribute or with an unknown element in a section, no section builder    *)
(* and no pass of the section loop runs for ever: parseXMLFile is never     *)
(* caught in a loop whose cursor makes no progress.                         *)
C16_ReloadTerminates == pc # "hung"

(* ------------------------------------------- errors of delegated builders *)
(* the child elements that parseMacro, parseICmd and parseCommand know *)
MacroChild(name) == StrStr(name, "macro") \/ StrStr(name, "command")
IcmdChild(name) ==
    \/ StrStr(name, "command") \/ StrStr(name, "send")
    \/ StrStr(name, "retry") \/ StrStr(name, "recvTimeout")
CommandChild(name) ==
    \/ name = "command" \/ name = "precommand"
    \/ \E f \in {"device", "addr", "error", "unit", "description", "len", "bit"} : StrStr(name, f)
KidNames(n) == {n.kids[k].name : k \in {i \in 1..Len(n.kids) : n.kids[i].type = "elem"}}

StrayUnderMacro(root) ==
    \E q \in Declared(root, "macro", "macros") : \E nm \in KidNames(NodeAt(root, q)) : ~MacroChild(nm)
StrayUnderIcmd(root) ==
    \E q \in Declared(root, "command", "commands") :
        /\ NodeAt(root, Front(Front(q))).name = "protocol"
        /\ \E nm \in KidNames(NodeAt(root, q)) : ~IcmdChild(nm)
StrayUnderNested(root) ==
    \E q \in Inner(root, "device", "command") : \E nm \in KidNames(NodeAt(root, q)) : ~CommandChild(nm)

(* C17: a call that returns on a document with an unknown element under a   *)
(* macro or an internal command of a protocol, or under a nested device     *)
(* element of a command, returns 0 and leaves the five handles as they      *)
(* were: nothing built from that document is installed.                     *)
C17_DelegatedErrorFatal ==
    (/\ Returned
     /\ \/ StrayUnderMacro(LastRoot) \/ StrayUnderIcmd(LastRoot) \/ StrayUnderNested(LastRoot))
    => last[1].ret = 0 /\ handles = pre.handles

(* -------------------------------------------- attributes of a device *)
DeviceLacks(root, attr) ==
    \E q \in Declared(root, "device", "devices") : ~HasProp(NodeAt(root, q), attr)

(* C18: a call that returns on a document with a device element that lacks *)
(* its name, its ID or its protocol returns 0, and no device of the chain  *)
(* behind devPtr has an empty name or an empty id.                         *)
C18_IncompleteDeviceFatal ==
    /\ (Returned /\ \E a \in {"name", "ID", "protocol"} : DeviceLacks(LastRoot, a))
            => last[1].ret = 0
    /\ \A i \in 1..Len(devPtr) : devPtr[i].name.val # "" /\ devPtr[i].id.val # ""

RECURSIVE PathLess(_, _)
PathLess(p, q) ==
    IF q = <<>> THEN FALSE
    ELSE IF p = <<>> THEN TRUE
    ELSE IF Head(p) # Head(q) THEN Head(p) < Head(q)
    ELSE PathLess(Tail(p), Tail(q))

DevicesFirst(root) ==
    \E d \in Declared(root, "devices", "vito") :
        \A p \in Declared(root, "protocols", "V-Control") : PathLess(d, p)
CommandsFirst(root) ==
    \E c \in Declared(root, "commands", "vito") :
        \A d \in Declared(root, "devices", "vito") : PathLess(c, d)

LookupNames ==
    {"UT", "CO", "XX", "KW", "P300", "GWG", "A", "B", "Z", "SYNC", "getaddr", "getTemp", "getMode", "ping"}

(* the first index whose key is name, 0 if there is none; a null key is no key *)
FirstUnit(list, name) ==
    Least({i \in 1..Len(list) : list[i].abbrev.ref # NOLBL /\ list[i].abbrev.val = name})
FirstNamed(list, name) ==
    Least({i \in 1..Len(list) : list[i].name.ref # NOLBL /\ list[i].name.val = name})
FirstDevice(list, id) ==
    Least({i \in 1..Len(list) : list[i].id.ref # NOLBL /\ list[i].id.val = id})

(* C20: on the chains behind the handles, every lookup with a name returns *)
(* the first entry whose key equals the name, and NULL when no entry has   *)
(* that key: unit by abbrev, protocol by name, macro and internal command  *)
(* by name within each protocol, device by id, command by name within the  *)
(* generic chain and within each device.                                   *)
C20_LookupFirstMatch ==
    pc = "idle" =>
    \A name \in LookupNames :
        /\ getUnitNode(uPtr, 1, name) = FirstUnit(uPtr, name)
        /\ getProtocolNode(protoPtr, 1, name) = FirstNamed(protoPtr, name)
        /\ getDeviceNode(devPtr, 1, name) = FirstDevice(devPtr, name)
        /\ getCommandNode(cmdPtr, 1, Arg(name)) = FirstNamed(cmdPtr, name)
        /\ \A k \in 1..Len(protoPtr) :
              /\ getMacroNode(protoPtr[k].mPtr, 1, name) = FirstNamed(protoPtr[k].mPtr, name)
              /\ getIcmdNode(protoPtr[k].icPtr, 1, name) = FirstNamed(protoPtr[k].icPtr, name)
        /\ \A k \in 1..Len(devPtr) :
              getCommandNode(devPtr[k].cmdPtr, 1, Arg(name)) = FirstNamed(devPtr[k].cmdPtr, name)

(* ------------------------------------------- overrides and propagation *)
(* in a device's list: no propagated record follows an entry of its name,  *)
(* every device-specific record precedes every propagated record, and the  *)
(* lookup of a name that has a device-specific record returns such a record *)
OverridesFirst(list) ==
    /\ \A k \in 1..Len(list) :
          list[k].nodeType = 0 => \A j \in 1..(k - 1) : list[j].name.val # list[k].name.val
    /\ \A j, k \in 1..Len(list) :
          (list[j].nodeType = 2 /\ list[k].nodeType = 0) => j < k
    /\ \A k \in 1..Len(list) :
          list[k].nodeType = 2 =>
              /\ getCommandNode(list, 1, list[k].name) # 0
              /\ list[getCommandNode(list, 1, list[k].name)].nodeType = 2

(* C21: in the device chain a call has built and propagated to, and in the *)
(* installed device chain, default propagation has appended no record to a *)
(* device that held an entry of that name: the device-specific records     *)
(* come before the propagated ones and the lookup of an overridden name on *)
(* the device returns the device-specific record.                          *)
C21_OverridesWin ==
    /\ \A i \in 1..Len(devPtr) : OverridesFirst(devPtr[i].cmdPtr)
    /\ pc \notin {"idle", "crashed", "hung"} =>
          \A i \in 1..Len(loc.TdevPtr) : OverridesFirst(loc.TdevPtr[i].cmdPtr)

(* a device is installed whose list holds its own record of a command,     *)
(* then a propagated record of another command, and the lookup of the      *)
(* first name returns the device's own record with its own address         *)
C21_Witness ==
    /\ pc = "idle" /\ loaded
    /\ \E i \in 1..Len(devPtr) :
          LET list == devPtr[i].cmdPtr IN
          /\ Len(list) >= 2
          /\ list[1].nodeType = 2 /\ list[Len(list)].nodeType = 0
          /\ LET g == getCommandNode(cmdPtr, 1, list[1].name) IN
             /\ g # 0 /\ cmdPtr[g].addr.val # list[1].addr.val
             /\ list[getCommandNode(list, 1, list[1].name)].addr.val = list[1].addr.val

(* ------------------------------------- unit and pcmd of a nested record *)
(* the device-specific records built from the nested device element at q *)
RecordsOf(q) ==
    {t \in DeviceRecords : Rec(t).nodeType = 2 /\ Rec(t).node.p = q}

(* C22: in an installed model, wherever the nested device element stands   *)
(* among the children of its command, it has a record on its device; the   *)
(* record's unit is the element's own unit if it has one, else a copy of   *)
(* its own of the command's unit, and its pcmd is the element's protocmd   *)
(* attribute if it has one, else a copy of the command's pcmd.             *)
C22_NestedUnitAndPcmd ==
    Loaded =>
        \A q \in Inner(LastRoot, "device", "command") :
            LET n == NodeAt(LastRoot, q)
                c == NodeAt(LastRoot, Front(q))
            IN
            /\ RecordsOf(q) # {}
            /\ \A t \in RecordsOf(q) :
                  /\ Rec(t).unit.val = (IF HasKid(n, "unit") THEN KidText(n, "unit")
                                        ELSE KidText(c, "unit"))
                  /\ (HasKid(n, "unit") \/ HasKid(c, "unit")) => Rec(t).unit.ref # NOLBL
                  /\ Rec(t).pcmd.val = (IF HasProp(n, "protocmd") THEN PropText(n, "protocmd")
                                        ELSE PropText(c, "protocmd"))
                  /\ Rec(t).pcmd.ref # NOLBL

(* ------------------------------------------------ tags and ownership *)
OwnStrings(c) == SeqSet(Ptrs(<<c.addr.ref, c.precmd.ref, c.unit.ref, c.pcmd.ref, c.errStr.ref>>))
SharedStrings(c) == SeqSet(Ptrs(<<c.name.ref, c.description.ref>>))
Released(c) == SeqSet(removeCommandList(<<c>>)) \ {c.node}
GenericStrings == UNION {OwnStrings(cmdPtr[k]) \cup SharedStrings(cmdPtr[k]) : k \in 1..Len(cmdPtr)}
NoTwice(seq) == \A i, j \in 1..Len(seq) : seq[i] = seq[j] => i = j

(* C23: every generic command of the installed chain has tag 1, every      *)
(* record of a device made from a nested element has tag 2 and every       *)
(* propagated record has tag 0. A tag-1 record releases all its strings, a *)
(* tag-2 record its own addr, precmd, unit, pcmd and errStr but not the    *)
(* name and description it shares with its generic command, a tag-0 record *)
(* no string at all, all of its strings being those of a generic command.  *)
(* The release of the device chain and then of the command chain frees no  *)
(* pointer twice, and no call has freed a pointer that was not allocated.  *)
C23_TagsDecideRelease ==
    /\ badFree = {}
    /\ (pc = "idle" /\ loaded) =>
          /\ \A k \in 1..Len(cmdPtr) :
                /\ cmdPtr[k].nodeType = 1
                /\ Released(cmdPtr[k]) = OwnStrings(cmdPtr[k]) \cup SharedStrings(cmdPtr[k])
          /\ \A t \in DeviceRecords :
                /\ Rec(t).nodeType = (IF Rec(t).node.f = "prop" THEN 0 ELSE 2)
                /\ Rec(t).nodeType = 2 =>
                      /\ Released(Rec(t)) = OwnStrings(Rec(t))
                      /\ SharedStrings(Rec(t)) \subseteq GenericStrings
                      /\ OwnStrings(Rec(t)) \cap GenericStrings = {}
                /\ Rec(t).nodeType = 0 =>
                      /\ Released(Rec(t)) = {}
                      /\ OwnStrings(Rec(t)) \cup SharedStrings(Rec(t)) \subseteq GenericStrings
          /\ NoTwice(removeDeviceList(devPtr) \o removeCommandList(cmdPtr))

(* a generation with generic, device-specific and propagated records has   *)
(* been released by the next successful call, whose generation has all     *)
(* three kinds of record again                                             *)
C23_Witness ==
    /\ pc = "idle" /\ loaded /\ Len(last) = 2
    /\ last[1].ret = 1 /\ last[2].ret = 1
    /\ Inner(Docs[last[2].doc].root, "device", "command") # {}
    /\ \A l \in heap : l.g = 1 => l.f \notin {"name", "addr", "unit", "pcmd", "node", "prop"}
    /\ \E t \in DeviceRecords : Rec(t).nodeType = 2
    /\ \E t \in DeviceRecords : Rec(t).nodeType = 0

(* ------------------------------------------ references of the live model *)
(* C24: between calls, once a model is installed and whatever calls have   *)
(* returned 1 or 0 since: the protocol of every device is a protocol of    *)
(* the protocol chain, the default device of the config is a device of the *)
(* device chain and has the id the config names, every string a record of  *)
(* a device borrows is a string of a generic command of the command chain, *)
(* and everything the handles reach is allocated and was built by the call *)
(* that built the config.                                                  *)
C24_LiveReferencesClosed ==
    (pc = "idle" /\ loaded) =>
        /\ \A i \in 1..Len(devPtr) : devPtr[i].protoPtr \in {protoPtr[k].node : k \in 1..Len(protoPtr)}
        /\ \E i \in 1..Len(devPtr) :
              /\ cfgPtr[1].devPtr = devPtr[i].node
              /\ cfgPtr[1].devID.val = devPtr[i].id.val
        /\ \A t \in DeviceRecords :
              /\ SharedStrings(Rec(t)) \subseteq GenericStrings
              /\ Rec(t).nodeType = 0 => OwnStrings(Rec(t)) \subseteq GenericStrings
        /\ Reach(handles) \subseteq heap
        /\ \A l \in Reach(handles) : l.g = cfgPtr[1].node.g

(* a model with device-specific and propagated records is live after a     *)
(* call that built a whole candidate and discarded it for want of the      *)
(* default device: the candidate is still allocated, nothing live points   *)
(* to it                                                                   *)
C24_Witness ==
    /\ pc = "idle" /\ loaded /\ Len(last) = 2
    /\ last[2].ret = 1 /\ last[1].ret = 0 /\ last[1].at = "default"
    /\ \E l \in heap : l.g = gen /\ l.f = "prop"
    /\ \E t \in DeviceRecords : Rec(t).nodeType = 2
    /\ \E t \in DeviceRecords : Rec(t).nodeType = 0
    /\ \A l \in Reach(handles) : l.g = gen - 1

====
